---- MODULE Spec2Model ----
(***************************************************************************)
(* Model of the clawden control plane: the LifecycleManager               *)
(* (crates/clawden-server/src/manager.rs, lifecycle.rs) and the            *)
(* ChannelStore (crates/clawden-core/src/channels.rs).                     *)
(***************************************************************************)
EXTENDS Integers, Sequences, FiniteSets, TLC

(* ------------------------------- bounds -------------------------------- *)
\* number of register_agent calls explored
MaxAgents == 2
\* number of successful dispatches explored (task_count is a u64)
MaxTasks == 2
\* number of select_agent calls explored (round_robin_index is a usize)
MaxSelect == 2
\* number of failed health polls explored per agent (the counter is a u32)
MaxFailures == 1
\* number of clock steps explored
MaxTicks == 1
\* the same for the router alone (SpecRouter)
RouterAgents == 3
RouterTasks == 2
RouterSelects == 4
\* number of successful bind calls explored (next_binding_id is a u64)
MaxBinds == 4
\* the failure counter alone (SpecCounter): the failed polls explored from 0,
\* and how far below u32::MAX the counters explored start
PollFailures == 3
PollWindow == 3
\* backoff_ms alone (SpecBackoff): the failure counts explored from 0
MaxBackoffFailures == 9
\* the health monitor (SpecMonitor): the agents registered, the failed polls
\* in a row, the monitor ticks and the clock steps explored
MonitorAgents == 2
MonitorFailures == 3
MonitorTicks == 4
MonitorClock == 3
\* the tasks (SpecTasks): the agents registered, the failed polls in a row, the
\* audit events, the select_agent calls and the clock steps explored
TaskAgents == 2
TaskFailures == 1
TaskAudit == 3
TaskSelects == 1
TaskClock == 1
\* the handlers (SpecApi): the agents registered or deployed, the failed polls
\* in a row, the audit events, the select_agent calls, the clock steps and the
\* successful bind calls explored
ApiAgents == 2
ApiFailures == 1
ApiAudit == 3
ApiSelects == 1
ApiClock == 1
ApiBinds == 2
\* the balance of the router (SpecBalance): the agents registered and the
\* successful dispatches explored
BalanceAgents == 3
BalanceTasks == 6
\* start_direct and stop calls on one runtime (SpecTracker): the processes
\* spawned
TrackerSpawns == 4
\* the audit log alone (SpecAudit): the append calls explored
AuditAppends == 4
\* stop calls on one runtime (SpecStop): the crashes explored
StopCrashes == 2
\* the supervisor alone (SpecSupervisor): the crashes explored
SupCrashes == 7

\* Option::None for the Option<u64> fields and for "no agent"
None == -1

(* ----------------------------- lifecycle.rs ---------------------------- *)
AgentState == {"Registered", "Installed", "Running", "Stopped", "Degraded"}

\* a slip in the table: Degraded -> Stopped taken for an edge
can_transition_to_mut(self, next) ==
    CASE self = "Registered" /\ next = "Installed" -> TRUE
      [] self = "Installed"  /\ next = "Running"   -> TRUE
      [] self = "Running"    /\ next = "Stopped"   -> TRUE
      [] self = "Running"    /\ next = "Degraded"  -> TRUE
      [] self = "Degraded"   /\ next = "Running"   -> TRUE
      [] self = "Degraded"   /\ next = "Stopped"   -> TRUE
      [] self = "Stopped"    /\ next = "Running"   -> TRUE
      [] self = next                               -> TRUE
      [] OTHER                                     -> FALSE

can_transition_to(self, next) ==
    CASE self = "Registered" /\ next = "Installed" -> TRUE
      [] self = "Installed"  /\ next = "Running"   -> TRUE
      [] self = "Running"    /\ next = "Stopped"   -> TRUE
      [] self = "Running"    /\ next = "Degraded"  -> TRUE
      [] self = "Degraded"   /\ next = "Running"   -> TRUE
      [] self = "Stopped"    /\ next = "Running"   -> TRUE
      [] self = next                               -> TRUE
      [] OTHER                                     -> FALSE

(* ------------------------------ runtimes ------------------------------- *)
ClawRuntime == {"OpenClaw", "ZeroClaw", "PicoClaw", "NanoClaw",
                "IronClaw", "NullClaw", "MicroClaw", "MimiClaw"}

\* the adapters builtin_registry() registers; the manager never changes them
builtin_registry == {"OpenClaw", "ZeroClaw", "PicoClaw", "NanoClaw"}

runtime_cost_tier(runtime) ==
    CASE runtime \in {"NullClaw", "PicoClaw", "MicroClaw"} -> 1
      [] runtime \in {"ZeroClaw", "NanoClaw", "MimiClaw"}  -> 2
      [] runtime \in {"OpenClaw", "IronClaw"}              -> 3

\* the register_agent requests explored, <<runtime, capabilities>>: a runtime
\* with an adapter and one without
RegInputs == { <<"PicoClaw", <<"chat">> >>,
               <<"IronClaw", <<"chat">> >> }
\* the required_capabilities lists explored
ReqCaps == { <<>> }

\* the same for the router alone: two cost tiers, two capability lists, and
\* required capabilities that some, all or no agents have ("Chat" differs from
\* "chat" by case only)
RouterRegInputs == { <<"PicoClaw", <<"chat", "embedded">> >>,
                     <<"ZeroClaw", <<"chat">> >> }
RouterReqCaps == { <<>>, <<"embedded">>, <<"Chat">> }

VARIABLES
    agents,             \* LifecycleManager.agents: id -> AgentRecord
    handles,            \* LifecycleManager.handles: id -> AgentHandle
    next_id,            \* LifecycleManager.next_id
    round_robin_index,  \* LifecycleManager.round_robin_index
    now,                \* the system clock, in ms (current_unix_ms)
    last,               \* the last manager call: operation, arguments, result, adapter calls
    dispatched,         \* history: id -> number of successful adapter.send calls
    sel_run,            \* history: the ids returned by the latest select_agent calls made
                        \* for one unchanged eligible set
    sel_ctx,            \* history: the eligible set (with task counts) of sel_run
    bindings,           \* ChannelStore.bindings: <<channel_type, hash>> -> ChannelBinding
    next_binding_id,    \* ChannelStore.next_binding_id
    chan_last,          \* the last ChannelStore call and its result
    health_hist,        \* history: id -> the outcome of the latest adapter.health call
                        \* and whether a recovery has succeeded since
    health_script,      \* the adapter: id -> the outcomes of its next health calls
                        \* (<<>>: any outcome)
    backoff_call,       \* the latest backoff_ms call: arguments and result
    transition_call,    \* the latest can_transition_to call: arguments and result
    lock,               \* the RwLock around the manager: the task that holds it for
                        \* writing (None: no writer)
    task,               \* task -> where the task is in its handler
    audit,              \* AuditLog.inner: the events appended, <<action, target>>
    audit_mutex,        \* the Mutex of AuditLog.inner: the task that holds it
    appender,           \* task -> where the task is in AuditLog::append
    emitted,            \* history: task -> the events the task has called append with
    listed,             \* history: the result of the latest AuditLog::list call
    pid_file,           \* run/<runtime>.pid: "absent", "empty" (created, nothing
                        \* written yet) or "complete" (the ProcessInfo as JSON)
    starter,            \* the start_direct call: its position, the restart policy
    stopper,            \* the stop call: its position, polls, signals sent, result
    lister,             \* what the latest list_statuses call found in the PID file
    sup,                \* the supervisor script of --restart=on-failure: its
                        \* position, its variables, the trapped signal pending
    child,              \* the runtime process launched from the executable
    audit_file,         \* the lines the supervisor has appended to logs/audit.log
    lock_file,          \* ~/.clawden/.install.lock: "absent", or the file with
                        \* the process that created it and its body
    installer,          \* the installer processes: position in acquire, alive
    tracker             \* the processes spawned by start_direct calls on one
                        \* runtime and the pid its PID file names

mgr_vars == <<agents, handles, next_id, round_robin_index, last, dispatched>>
sel_vars == <<sel_run, sel_ctx>>
chan_vars == <<bindings, next_binding_id, chan_last>>
health_vars == <<health_hist, health_script>>
fn_vars == <<backoff_call, transition_call>>
task_vars == <<lock, task, audit>>
log_vars == <<audit_mutex, appender, emitted, listed>>
proc_vars == <<pid_file, starter, stopper, lister, sup, child, audit_file>>
install_vars == <<lock_file, installer>>
vars == <<agents, handles, next_id, round_robin_index, now, last, dispatched,
          sel_run, sel_ctx, bindings, next_binding_id, chan_last,
          health_hist, health_script, backoff_call, transition_call, lock, task,
          audit, audit_mutex, appender, emitted, listed, pid_file, starter,
          stopper, lister, sup, child, audit_file, lock_file, installer,
          tracker>>

(* ------------------------------ helpers -------------------------------- *)
\* the decimal digits of n, as format!("agent-{}", n) prints them
RECURSIVE Digits(_)
Digits(n) == IF n < 10 THEN <<n>> ELSE Append(Digits(n \div 10), n % 10)

\* String::cmp on two ids "agent-<a>" and "agent-<b>": byte-wise lexicographic
RECURSIVE LexLess(_, _)
LexLess(s, t) ==
    IF s = <<>> THEN t # <<>>
    ELSE IF t = <<>> THEN FALSE
    ELSE IF Head(s) # Head(t) THEN Head(s) < Head(t)
    ELSE LexLess(Tail(s), Tail(t))

IdLess(a, b) == LexLess(Digits(a), Digits(b))

\* what a manager call was and did: the operation, the agent it acted on, the
\* target_agent_id and required_capabilities of a route_and_send, the result
\* and the adapter calls made
CallResult(op, id, target, caps, result, selected, calls) ==
    [op |-> op, id |-> id, target |-> target, caps |-> caps, result |-> result,
     calls |-> calls]

NoCall == CallResult("new", None, None, <<>>, "Ok", None, {})

NoHandles == [a \in {} |-> None]

LifecycleManager_new ==
    /\ agents = <<>>
    /\ handles = NoHandles
    /\ next_id = 1
    /\ round_robin_index = 0
    /\ last = NoCall
    /\ dispatched = <<>>

(* ------------------------------ manager.rs ----------------------------- *)
\* 1_000: the base of refresh_health(), and the default of the health monitor
base_backoff_ms == 1000

\* the Ok results of adapter.health explored, next to Err
HealthOk == {"Healthy"}

RECURSIVE SumSeq(_)
SumSeq(s) == IF s = <<>> THEN 0 ELSE Head(s) + SumSeq(Tail(s))

\* AgentHandle, as the adapters build it from the AgentConfig
AgentHandle(id) == [agent |-> id, runtime |-> agents[id].runtime]

\* 1_u64 << e
Pow2(e) == CASE e = 0 -> 1 [] e = 1 -> 2 [] e = 2 -> 4 [] e = 3 -> 8
             [] e = 4 -> 16 [] e = 5 -> 32 [] e = 6 -> 64 [] e = 7 -> 128

\* A u32 or u64 value is the sequence of its 16-bit limbs, the most significant
\* first: two limbs for a u32, four for a u64.
Limb == 65536

u32(n) == <<n \div Limb, n % Limb>>

u64(n) == <<0, 0, n \div Limb, n % Limb>>

u32_MAX == <<Limb - 1, Limb - 1>>

u64_MAX == <<Limb - 1, Limb - 1, Limb - 1, Limb - 1>>

\* the value of the limbs a, where it is below 2^31
RECURSIVE to_int(_)
to_int(a) ==
    IF a = <<>> THEN 0
    ELSE to_int(SubSeq(a, 1, Len(a) - 1)) * Limb + a[Len(a)]

\* a < b, a and b of one width
wide_less(a, b) == LexLess(a, b)

\* a.min(b)
wide_min(a, b) == IF wide_less(b, a) THEN b ELSE a

\* a + n in limbs, one limb longer than a: the first limb is the carry out
RECURSIVE wide_add(_, _)
wide_add(a, n) ==
    IF a = <<>> THEN <<n>>
    ELSE LET k == Len(a)
             sum == a[k] + n
         IN  Append(wide_add(SubSeq(a, 1, k - 1), sum \div Limb), sum % Limb)

\* a slip: wrapping_add in the place of saturating_add
saturating_add_mut(a, n) == Tail(wide_add(a, n))

\* a.saturating_add(n)
saturating_add(a, n) ==
    LET r == wide_add(a, n)
    IN  IF Head(r) # 0 THEN [i \in DOMAIN a |-> Limb - 1] ELSE Tail(r)

\* a - 1 in limbs, for a above 0
RECURSIVE wide_dec(_)
wide_dec(a) ==
    LET k == Len(a)
    IN  IF a[k] > 0 THEN [a EXCEPT ![k] = @ - 1]
        ELSE Append(wide_dec(SubSeq(a, 1, k - 1)), Limb - 1)

\* a.saturating_sub(n)
RECURSIVE saturating_sub(_, _)
saturating_sub(a, n) ==
    IF n = 0 \/ a = [i \in DOMAIN a |-> 0] THEN a
    ELSE saturating_sub(wide_dec(a), n - 1)

\* a * m + carry in limbs, one limb longer than a: the first limb is the carry out
RECURSIVE wide_mul(_, _, _)
wide_mul(a, m, carry) ==
    IF a = <<>> THEN <<carry>>
    ELSE LET k == Len(a)
             prod == a[k] * m + carry
         IN  Append(wide_mul(SubSeq(a, 1, k - 1), m, prod \div Limb), prod % Limb)

\* a slip: wrapping_mul in the place of saturating_mul
saturating_mul_mut(a, m) == Tail(wide_mul(a, m, 0))

\* a.saturating_mul(m)
saturating_mul(a, m) ==
    LET r == wide_mul(a, m, 0)
    IN  IF Head(r) # 0 THEN [i \in DOMAIN a |-> Limb - 1] ELSE Tail(r)

\* a slip: the exponent is capped at 7
backoff_ms_mut(base_ms, failures) ==
    LET exponent == to_int(wide_min(saturating_sub(failures, 1), u32(7)))
        multiplier == Pow2(exponent)
        capped == saturating_mul(base_ms, multiplier)
    IN  wide_min(capped, u64(300000))

\* backoff_ms(base_ms: u64, failures: u32) -> u64
backoff_ms(base_ms, failures) ==
    LET exponent == to_int(wide_min(saturating_sub(failures, 1), u32(6)))
        multiplier == Pow2(exponent)
        capped == saturating_mul(base_ms, multiplier)
    IN  wide_min(capped, u64(300000))

\* a slip: the counter is read and not advanced
fetch_add_mut(counter, n) == counter

\* the counter after next_id.fetch_add(n); the u64 does not wrap on the
\* registrations explored
fetch_add(counter, n) == counter + n

register_agent(runtime, capabilities) ==
    /\ LET id == next_id
           record == [id |-> id,
                      runtime |-> runtime,
                      capabilities |-> capabilities,
                      state |-> "Registered",
                      task_count |-> 0,
                      health |-> "Unknown",
                      consecutive_health_failures |-> u32(0),
                      last_health_check_unix_ms |-> None,
                      next_recovery_attempt_unix_ms |-> None]
       IN  /\ agents' = Append(agents, record)
           /\ next_id' = fetch_add(next_id, 1)
           /\ dispatched' = Append(dispatched, 0)
           /\ last' = CallResult("register", id, None, <<>>, "Ok", None, {})
    /\ UNCHANGED <<handles, round_robin_index, now, chan_vars>>

\* a slip: the record is marked Running before adapter.start has returned
after_failed_start_mut(agent_id) == [agents EXCEPT ![agent_id].state = "Running"]

\* the records after adapter.start returned an error: the `?` returns before
\* any field is written
after_failed_start(agent_id) == agents

\* start_agent(agent_id); start_ok is the outcome of adapter.start
start_agent(agent_id, start_ok) ==
    /\ UNCHANGED <<next_id, round_robin_index, now, dispatched, chan_vars>>
    /\ IF agent_id \notin DOMAIN agents THEN
            /\ last' = CallResult("start", agent_id, None, <<>>, "NotFound", None, {})
            /\ UNCHANGED <<agents, handles>>
       ELSE IF agents[agent_id].runtime \notin builtin_registry THEN
            /\ last' = CallResult("start", agent_id, None, <<>>, "NoAdapter", None, {})
            /\ UNCHANGED <<agents, handles>>
       ELSE IF /\ ~can_transition_to(agents[agent_id].state, "Running")
               /\ agents[agent_id].state # "Registered" THEN
            /\ last' = CallResult("start", agent_id, None, <<>>, "InvalidTransition", None, {})
            /\ UNCHANGED <<agents, handles>>
       ELSE IF ~start_ok THEN
            /\ last' = CallResult("start", agent_id, None, <<>>, "AdapterFailure", None,
                                  {<<"start", agent_id>>})
            /\ agents' = after_failed_start(agent_id)
            /\ UNCHANGED handles
       ELSE
            /\ agents' = [agents EXCEPT ![agent_id].state = "Running",
                                        ![agent_id].health = "Unknown"]
            /\ handles' = [a \in DOMAIN handles \cup {agent_id} |->
                              IF a = agent_id THEN AgentHandle(agent_id) ELSE handles[a]]
            /\ last' = CallResult("start", agent_id, None, <<>>, "Ok", None,
                                  {<<"start", agent_id>>})

\* a slip: the handle is kept after adapter.stop
stop_handles_mut(agent_id) == handles

\* self.handles.remove(agent_id), after adapter.stop succeeded
stop_handles(agent_id) == [a \in DOMAIN handles \ {agent_id} |-> handles[a]]

\* stop_agent(agent_id); stop_ok is the outcome of adapter.stop
stop_agent(agent_id, stop_ok) ==
    /\ UNCHANGED <<next_id, round_robin_index, now, dispatched, chan_vars>>
    /\ IF agent_id \notin DOMAIN agents THEN
            /\ last' = CallResult("stop", agent_id, None, <<>>, "NotFound", None, {})
            /\ UNCHANGED <<agents, handles>>
       ELSE IF agent_id \notin DOMAIN handles THEN
            /\ agents' = IF can_transition_to(agents[agent_id].state, "Stopped")
                         THEN [agents EXCEPT ![agent_id].state = "Stopped"]
                         ELSE agents
            /\ last' = CallResult("stop", agent_id, None, <<>>, "Ok", None, {})
            /\ UNCHANGED handles
       ELSE IF agents[agent_id].runtime \notin builtin_registry THEN
            /\ last' = CallResult("stop", agent_id, None, <<>>, "NoAdapter", None, {})
            /\ UNCHANGED <<agents, handles>>
       ELSE IF ~stop_ok THEN
            /\ last' = CallResult("stop", agent_id, None, <<>>, "AdapterFailure", None,
                                  {<<"stop", agent_id>>})
            /\ UNCHANGED <<agents, handles>>
       ELSE
            /\ handles' = stop_handles(agent_id)
            /\ agents' = IF can_transition_to(agents[agent_id].state, "Stopped")
                         THEN [agents EXCEPT ![agent_id].state = "Stopped"]
                         ELSE agents
            /\ last' = CallResult("stop", agent_id, None, <<>>, "Ok", None,
                                  {<<"stop", agent_id>>})

\* a slip: the state is not looked at
is_eligible_mut(agent, required_capabilities) ==
    \A i \in DOMAIN required_capabilities :
        \E j \in DOMAIN agent.capabilities :
            agent.capabilities[j] = required_capabilities[i]

\* the filter of select_agent: Running, and every required capability present
is_eligible(agent, required_capabilities) ==
    /\ agent.state = "Running"
    /\ \A i \in DOMAIN required_capabilities :
          \E j \in DOMAIN agent.capabilities :
              agent.capabilities[j] = required_capabilities[i]

eligible(required_capabilities) ==
    {a \in DOMAIN agents : is_eligible(agents[a], required_capabilities)}

\* (task_count, runtime_cost_tier): the score compared with best_score
agent_score(agent) == <<agent.task_count, runtime_cost_tier(agent.runtime)>>

\* a slip: the cost tier is put before the task count
rank_less_mut(a, b) ==
    LET sa == <<runtime_cost_tier(agents[a].runtime), agents[a].task_count>>
        sb == <<runtime_cost_tier(agents[b].runtime), agents[b].task_count>>
    IN  IF sa[1] # sb[1] THEN sa[1] < sb[1]
        ELSE IF sa[2] # sb[2] THEN sa[2] < sb[2]
        ELSE LexLess(Digits(a), Digits(b))

\* the order of sort_by_key on (task_count, runtime_cost_tier, id)
rank_less(a, b) ==
    LET sa == agent_score(agents[a])
        sb == agent_score(agents[b])
    IN  IF sa[1] # sb[1] THEN sa[1] < sb[1]
        ELSE IF sa[2] # sb[2] THEN sa[2] < sb[2]
        ELSE IdLess(a, b)

RECURSIVE ranked(_)
ranked(set) ==
    IF set = {} THEN <<>>
    ELSE LET first == CHOOSE a \in set : \A b \in set \ {a} : rank_less(a, b)
         IN  <<first>> \o ranked(set \ {first})

best_group(required_capabilities) ==
    LET r == ranked(eligible(required_capabilities))
        best_score == agent_score(agents[r[1]])
    IN  SelectSeq(r, LAMBDA a : agent_score(agents[a]) = best_score)

\* a slip: the round-robin index is not used
select_agent_mut(required_capabilities) ==
    IF {a \in DOMAIN agents : is_eligible(agents[a], required_capabilities)} = {} THEN None
    ELSE LET r == ranked({a \in DOMAIN agents : is_eligible(agents[a], required_capabilities)})
         IN  r[1]

\* the id select_agent returns, None for Err
select_agent(required_capabilities) ==
    IF eligible(required_capabilities) = {} THEN None
    ELSE LET group == best_group(required_capabilities)
             idx == round_robin_index % Len(group)
         IN  group[idx + 1]

\* history of select_agent: the eligible set with its task counts
SelCtx(required_capabilities) ==
    LET e == eligible(required_capabilities)
    IN  [elig |-> e, counts |-> [a \in e |-> agents[a].task_count]]

LastN(s, n) == IF Len(s) <= n THEN s ELSE SubSeq(s, Len(s) - n + 1, Len(s))

\* a slip: the task is counted before the send is known to have succeeded
after_send_mut(record, send_ok) == [record EXCEPT !.task_count = @ + 1]

\* the record after adapter.send: task_count += 1 once the send has succeeded
after_send(record, send_ok) ==
    IF send_ok THEN [record EXCEPT !.task_count = @ + 1] ELSE record

\* selected_id of route_and_send, None when select_agent fails
route_selected(required_capabilities, target_agent_id) ==
    IF target_agent_id = None THEN select_agent(required_capabilities)
    ELSE target_agent_id

\* route_and_send(required_capabilities, message, target_agent_id);
\* send_ok is the outcome of adapter.send
route_and_send(required_capabilities, target_agent_id, send_ok) ==
    LET untargeted == target_agent_id = None
        selected == route_selected(required_capabilities, target_agent_id)
        selects == untargeted /\ selected # None
        Result(r, calls) == CallResult("route", selected, target_agent_id,
                                       required_capabilities, r,
                                       IF untargeted THEN selected ELSE None, calls)
    IN
    /\ UNCHANGED <<handles, next_id, now, chan_vars>>
    /\ round_robin_index' = IF selects THEN round_robin_index + 1 ELSE round_robin_index
    /\ IF selected = None THEN
            /\ last' = Result("SelectionFailed", {})
            /\ UNCHANGED <<agents, dispatched>>
       ELSE IF selected \notin DOMAIN agents THEN
            /\ last' = Result("NotFound", {})
            /\ UNCHANGED <<agents, dispatched>>
       ELSE IF agents[selected].state # "Running" THEN
            /\ last' = Result("NotRunning", {})
            /\ UNCHANGED <<agents, dispatched>>
       ELSE IF selected \notin DOMAIN handles THEN
            /\ last' = Result("NoRunningHandle", {})
            /\ UNCHANGED <<agents, dispatched>>
       ELSE IF agents[selected].runtime \notin builtin_registry THEN
            /\ last' = Result("NoAdapter", {})
            /\ UNCHANGED <<agents, dispatched>>
       ELSE
            /\ agents' = [agents EXCEPT ![selected] = after_send(@, send_ok)]
            /\ dispatched' = IF send_ok THEN [dispatched EXCEPT ![selected] = @ + 1]
                             ELSE dispatched
            /\ last' = Result(IF send_ok THEN "Ok" ELSE "AdapterFailure",
                              {<<"send", selected>>})

\* the agents refresh_health polls: a handle and an adapter
polled == {a \in DOMAIN agents :
              a \in DOMAIN handles /\ agents[a].runtime \in builtin_registry}

\* a slip: the counter is not cleared
health_ok_mut(record, health) ==
    [record EXCEPT !.health = health,
                   !.next_recovery_attempt_unix_ms = None]

\* the record after adapter.health returned Ok(health)
health_ok(record, health) ==
    [record EXCEPT !.health = health,
                   !.consecutive_health_failures = u32(0),
                   !.next_recovery_attempt_unix_ms = None]

\* the record after adapter.health returned Err, in a refresh that read the
\* clock at t
health_err(record, t, base) ==
    LET failures == saturating_add(record.consecutive_health_failures, 1)
    IN  [record EXCEPT
           !.health = "Degraded",
           !.consecutive_health_failures = failures,
           !.next_recovery_attempt_unix_ms = t + to_int(backoff_ms(base, failures)),
           !.state = IF can_transition_to(record.state, "Degraded")
                     THEN "Degraded" ELSE record.state]

\* one turn of the loop of refresh_health: the record of an agent after it;
\* is_polled says that the agent has a handle and an adapter, result is what
\* adapter.health returns: a HealthStatus, or "Err"
refreshed(record, t, base, is_polled, result) ==
    LET checked == [record EXCEPT !.last_health_check_unix_ms = t]
    IN  IF ~is_polled THEN [checked EXCEPT !.health = "Unknown"]
        ELSE IF result # "Err" THEN health_ok(checked, result)
        ELSE health_err(checked, t, base)

\* the records after the loop of a refresh_health that read the clock at t
refresh_agents(t, base, health_result) ==
    [a \in DOMAIN agents |->
        refreshed(agents[a], t, base, a \in polled,
                  IF a \in polled THEN health_result[a] ELSE "Err")]

\* refresh_health_with_base_backoff_ms(base); health_result[a] is what
\* adapter.health returns for agent a: a HealthStatus, or "Err"
refresh_health_with_base_backoff_ms(base, health_result) ==
    /\ agents' = refresh_agents(now, base, health_result)
    /\ last' = CallResult("refresh_health", None, None, <<>>, "Ok", None,
                          {<<"health", a>> : a \in polled})
    /\ UNCHANGED <<handles, next_id, round_robin_index, now, dispatched, chan_vars>>

\* a slip: the scheduled time is not looked at
due_ids_at_mut(ags, t) == {a \in DOMAIN ags : ags[a].state = "Degraded"}

\* the ids recover_degraded collects from the records ags when it reads the
\* clock at t
due_ids_at(ags, t) ==
    {a \in DOMAIN ags :
        /\ ags[a].state = "Degraded"
        /\ \/ ags[a].next_recovery_attempt_unix_ms = None
           \/ t >= ags[a].next_recovery_attempt_unix_ms}

due_ids == due_ids_at(agents, now)

\* a slip: a successful recovery clears the counter and keeps the scheduled time
recovered_mut(record, restart_ok) ==
    IF restart_ok THEN
         [record EXCEPT
            !.state = IF can_transition_to(record.state, "Running")
                      THEN "Running" ELSE record.state,
            !.health = "Unknown",
            !.consecutive_health_failures = u32(0)]
    ELSE [record EXCEPT !.health = "Degraded"]

\* the record of a due agent after its turn of the loop of recover_degraded
recovered(record, restart_ok) ==
    IF restart_ok THEN
         [record EXCEPT
            !.state = IF can_transition_to(record.state, "Running")
                      THEN "Running" ELSE record.state,
            !.health = "Unknown",
            !.consecutive_health_failures = u32(0),
            !.next_recovery_attempt_unix_ms = None]
    ELSE [record EXCEPT !.health = "Degraded"]

\* the due ids with an adapter: recover_degraded calls adapter.restart, or
\* adapter.start, for each of them
tried_at(ags, t) == {a \in due_ids_at(ags, t) : ags[a].runtime \in builtin_registry}

\* the adapter calls of recover_degraded
recover_calls(ags, t) ==
    {<<IF a \in DOMAIN handles THEN "restart" ELSE "start", a>> : a \in tried_at(ags, t)}

\* a slip: the handle adapter.start returned is not stored
recover_handles_mut(ags, t, restart_ok) == handles

\* the handles after the loop of recover_degraded
recover_handles(ags, t, restart_ok) ==
    [a \in DOMAIN handles \cup {b \in tried_at(ags, t) : restart_ok[b]} |->
        IF a \in DOMAIN handles THEN handles[a] ELSE AgentHandle(a)]

\* the records after the loop of recover_degraded
recover_agents(ags, t, restart_ok) ==
    [a \in DOMAIN ags |->
        IF a \notin tried_at(ags, t) THEN ags[a] ELSE recovered(ags[a], restart_ok[a])]

\* recover_degraded(); restart_ok[a] is the outcome of adapter.restart (with a
\* handle) or of adapter.start (without one) for agent a
recover_degraded(restart_ok) ==
    /\ handles' = recover_handles(agents, now, restart_ok)
    /\ agents' = recover_agents(agents, now, restart_ok)
    /\ last' = CallResult("recover_degraded", None, None, <<>>, "Ok", None,
                          recover_calls(agents, now))
    /\ UNCHANGED <<next_id, round_robin_index, now, dispatched, chan_vars>>

\* one turn of the loop of the health monitor task: refresh_health and
\* recover_degraded under one hold of the write lock, then the audit event.
\* The adapter.health calls take elapsed ms, so recover_degraded reads the
\* clock at now + elapsed; restart_ok[a] is the outcome of adapter.restart (or
\* adapter.start) for the agent a that is due then.
monitor_tick(base, health_result, elapsed, restart_ok) ==
    LET checked == refresh_agents(now, base, health_result)
        t == now + elapsed
    IN
    /\ agents' = recover_agents(checked, t, restart_ok)
    /\ handles' = recover_handles(checked, t, restart_ok)
    /\ now' = t
    /\ last' = CallResult("tick", None, None, <<>>, "Ok", None,
                          {<<"health", a>> : a \in polled} \cup recover_calls(checked, t))
    /\ audit' = Append(audit, <<"health.tick", "fleet">>)
    /\ UNCHANGED <<next_id, round_robin_index, dispatched, chan_vars, lock, task>>

\* the clock moves on
Tick ==
    /\ now' = now + base_backoff_ms
    /\ UNCHANGED <<agents, handles, next_id, round_robin_index, last, dispatched, chan_vars>>

(* ----------------------------- channels.rs ----------------------------- *)
\* the channel types of the closed set that are explored
ChannelType == {"telegram", "discord"}

\* the requests explored
ChannelTypeInputs == {"telegram", "discord", "carrier-pigeon"}
InstanceIds == {"inst-A", "inst-B"}
BotTokens == {"TOK-1", "TOK-2"}

\* ChannelType::from_str_loose: the channel type a name stands for, "" for None
from_str_loose(name) == IF name \in ChannelType THEN name ELSE ""

\* hash_token: the SHA-256 of the token, in lower-case hex
hash_token(token) ==
    CASE token = "TOK-1" ->
           "44ea8d9833092cb280f1e0fcb4adbc09f0d1845ff26bc905d4d808e61bc606de"
      [] token = "TOK-2" ->
           "83065b5165695a5babc409cb54d52619b1002bcb440e57ff36418f5123aaf6d9"

NoBindings == [k \in {} |-> None]

\* what a ChannelStore call was and did: the operation, its arguments (for
\* unbind the instance_id of the binding returned) and the result
ChanResult(op, instance_id, channel_type, bot_token, result) ==
    [op |-> op, instance_id |-> instance_id, channel_type |-> channel_type,
     bot_token |-> bot_token, result |-> result]

ChannelStore_new ==
    /\ bindings = NoBindings
    /\ next_binding_id = 0
    /\ chan_last = ChanResult("new", "", "", "", "Ok")

\* a slip: the instance takes the place of the token hash in the key
bind_key_mut(ct, instance_id, token_hash) == <<ct, instance_id>>

\* the key bind stores a binding under
bind_key(ct, instance_id, token_hash) == <<ct, token_hash>>

\* a slip: the comparison of the owners is inverted
bind_conflict_mut(existing, instance_id) ==
    existing.status = "Active" /\ existing.instance_id = instance_id

\* the conflict test of bind on the binding found under the key
bind_conflict(existing, instance_id) ==
    existing.status = "Active" /\ existing.instance_id # instance_id

bind(instance_id, channel_type, bot_token) ==
    LET ct == from_str_loose(channel_type)
        token_hash == hash_token(bot_token)
        key == bind_key(ct, instance_id, token_hash)
        binding == [instance_id |-> instance_id,
                    channel_type |-> ct,
                    bot_token_hash |-> token_hash,
                    status |-> "Active",
                    bound_at_unix_ms |-> now]
    IN
    /\ UNCHANGED <<mgr_vars, now>>
    /\ IF ct = "" THEN
            /\ chan_last' = ChanResult("bind", instance_id, channel_type, bot_token,
                                       "InvalidInput")
            /\ UNCHANGED <<bindings, next_binding_id>>
       ELSE IF key \in DOMAIN bindings /\ bind_conflict(bindings[key], instance_id) THEN
            /\ chan_last' = ChanResult("bind", instance_id, channel_type, bot_token,
                                       "BindingConflict")
            /\ UNCHANGED <<bindings, next_binding_id>>
       ELSE
            /\ bindings' = [k \in DOMAIN bindings \cup {key} |->
                               IF k = key THEN binding ELSE bindings[k]]
            /\ next_binding_id' = next_binding_id + 1
            /\ chan_last' = ChanResult("bind", instance_id, channel_type, bot_token, "Ok")

\* a slip: the binding is taken out of the map
release_binding_mut(bs, key) == [k \in DOMAIN bs \ {key} |-> bs[k]]

\* binding.status = ChannelBindingStatus::Released on the binding under key
release_binding(bs, key) == [bs EXCEPT ![key].status = "Released"]

\* unbind(binding_id); key is the key the iteration over the hash map yields at
\* index binding_id (any key: the order of a HashMap is unspecified)
unbind(binding_id, key) ==
    /\ UNCHANGED <<mgr_vars, now, next_binding_id>>
    /\ IF binding_id >= Cardinality(DOMAIN bindings) THEN
            /\ chan_last' = ChanResult("unbind", "", "", "", "NotFound")
            /\ UNCHANGED bindings
       ELSE
            /\ key \in DOMAIN bindings
            /\ bindings' = release_binding(bindings, key)
            /\ chan_last' = ChanResult("unbind", bindings[key].instance_id,
                                       bindings[key].channel_type, "", "Ok")

list_bindings == {bindings[k] : k \in DOMAIN bindings}

\* detect_conflicts: the (channel_type, bot_token_hash) groups of Active
\* bindings with more than one member
detect_conflicts ==
    LET active == {k \in DOMAIN bindings : bindings[k].status = "Active"}
        group(k) == {j \in active :
                        /\ bindings[j].channel_type = bindings[k].channel_type
                        /\ bindings[j].bot_token_hash = bindings[k].bot_token_hash}
    IN  {[channel_type |-> bindings[k].channel_type,
          bot_token_hash |-> bindings[k].bot_token_hash,
          instance_ids |-> {bindings[j].instance_id : j \in group(k)}] :
            k \in {j \in active : Cardinality(group(j)) > 1}}

(* ------------------------- the adapters' health ------------------------ *)
\* no adapter.health call made yet
NoPoll == [poll |-> "None", recovered |-> FALSE]

\* a registration: no poll yet; script is the number of health calls the
\* agent's adapter fails before it succeeds for good, None for an adapter
\* whose health calls may have any outcome
registered_health(script) ==
    /\ health_hist' = Append(health_hist, NoPoll)
    /\ health_script' = Append(health_script, script)

\* health_result is what the adapters' scripts allow
scripted(health_result) ==
    \A a \in DOMAIN health_result :
        health_script[a] # None =>
            health_result[a] = IF health_script[a] > 0 THEN "Err" ELSE "Healthy"

\* the history and the scripts after the health calls of a refresh_health
polled_health(health_result) ==
    /\ health_hist' = [a \in DOMAIN health_hist |->
          IF a \notin DOMAIN health_result THEN health_hist[a]
          ELSE [poll |-> IF health_result[a] = "Err" THEN "Err" ELSE "Ok",
                recovered |-> FALSE]]
    /\ health_script' = [a \in DOMAIN health_script |->
          IF a \in DOMAIN health_result /\ health_script[a] # None /\ health_script[a] > 0
          THEN health_script[a] - 1 ELSE health_script[a]]

\* the history after a recover_degraded whose restarts and starts ended as
\* restart_ok says
recovered_health(restart_ok) ==
    /\ health_hist' = [a \in DOMAIN health_hist |->
          IF a \in DOMAIN restart_ok /\ agents[a].runtime \in builtin_registry
             /\ restart_ok[a]
          THEN [health_hist[a] EXCEPT !.recovered = TRUE] ELSE health_hist[a]]
    /\ UNCHANGED health_script

\* the history and the scripts after a turn of the monitor loop
ticked_health(health_result, recovered_ids) ==
    /\ health_hist' = [a \in DOMAIN health_hist |->
          [poll |-> IF a \notin DOMAIN health_result THEN health_hist[a].poll
                    ELSE IF health_result[a] = "Err" THEN "Err" ELSE "Ok",
           recovered |-> \/ a \in recovered_ids
                         \/ a \notin DOMAIN health_result /\ health_hist[a].recovered]]
    /\ health_script' = [a \in DOMAIN health_script |->
          IF a \in DOMAIN health_result /\ health_script[a] # None /\ health_script[a] > 0
          THEN health_script[a] - 1 ELSE health_script[a]]

(* ------------------------------ the tasks ------------------------------ *)
\* the tasks of the server: the health monitor and the tasks that serve the
\* HTTP requests in flight
Task == {"monitor", "http-1", "http-2"}

\* a task in a handler: op is the handler, pc where the task is in it, id the
\* agent at hand, target the target_agent_id of a send_task, time the clock
\* value the running refresh_health or recover_degraded has read, todo the ids
\* its loop has yet to visit, calls the adapter calls it has made
InHandler(op, pc, id, target, time, todo, calls) ==
    [op |-> op, pc |-> pc, id |-> id, target |-> target, time |-> time,
     todo |-> todo, calls |-> calls]

\* a task that is not in a handler
Idle == InHandler("", "idle", None, None, None, {}, {})

\* the write lock of the manager held by no task
Unlocked == "unlocked"

\* the server as main starts it: no task in a handler, the lock free; audit
\* holds the events appended since then
tasks_new ==
    /\ lock = Unlocked
    /\ task = [t \in Task |-> Idle]
    /\ audit = <<>>

\* AuditLog::default(): the mutex free, no task in append, nothing listed
AuditLog_default ==
    /\ audit_mutex = Unlocked
    /\ appender = [t \in Task |-> [pc |-> "idle", event |-> <<>>, len |-> 0]]
    /\ emitted = [t \in Task |-> <<>>]
    /\ listed = <<>>

\* clawden_core::append_audit on the in-memory log
append_audit(log, action, target) == Append(log, <<action, target>>)

\* a slip: the lock is granted while another task holds it
can_write_mut(holder) == TRUE

\* manager.write().await returns when no task holds the lock
can_write(holder) == holder = Unlocked

\* manager.read().await returns when no task holds the lock for writing
can_read(holder) == holder = Unlocked

\* the positions at which a task awaits an adapter call
AwaitPoints == {"await_start", "await_stop", "await_send", "await_health",
                "await_restart"}

\* the handler ends: its guard is dropped
release(t) ==
    /\ lock' = Unlocked
    /\ task' = [task EXCEPT ![t] = Idle]

\* the task goes on in its handler, the lock held
goto(t, next) ==
    /\ task' = [task EXCEPT ![t] = next]
    /\ UNCHANGED lock

\* a handler starts: state.manager.write().await
acquire(t, op, id, target) ==
    /\ task[t].pc = "idle"
    /\ can_write(lock)
    /\ lock' = t
    /\ task' = [task EXCEPT ![t] = InHandler(op, "locked", id, target, None, {}, {})]
    /\ UNCHANGED <<mgr_vars, now, chan_vars, health_vars, audit>>

\* api::register_agent, the lock taken
register_locked(t, runtime, capabilities) ==
    /\ task[t].pc = "locked" /\ task[t].op = "register"
    /\ register_agent(runtime, capabilities)
    /\ registered_health(None)
    /\ audit' = append_audit(audit, "agent.register", next_id)
    /\ release(t)

\* api::list_agents: a read of the records under the read lock
list_locked(t) ==
    /\ task[t].pc = "idle"
    /\ can_read(lock)
    /\ last' = CallResult("list", None, None, <<>>, "Ok", None, {})
    /\ UNCHANGED <<agents, handles, next_id, round_robin_index, dispatched, now,
                   chan_vars, health_vars, task_vars>>

\* start_agent gets to adapter.start
start_awaits(agent_id) ==
    /\ agent_id \in DOMAIN agents
    /\ agents[agent_id].runtime \in builtin_registry
    /\ \/ can_transition_to(agents[agent_id].state, "Running")
       \/ agents[agent_id].state = "Registered"

\* manager.start_agent up to adapter.start(&config).await, in api::start_agent
\* and, after the stop, in api::restart_agent
start_prefix(t) ==
    /\ \/ task[t].pc = "locked" /\ task[t].op = "start"
       \/ task[t].pc = "stopped" /\ task[t].op = "restart"
    /\ IF start_awaits(task[t].id) THEN
            /\ goto(t, [task[t] EXCEPT !.pc = "await_start"])
            /\ UNCHANGED <<mgr_vars, now, chan_vars>>
       ELSE
            /\ start_agent(task[t].id, TRUE)
            /\ release(t)
    /\ UNCHANGED <<health_vars, audit>>

\* adapter.start has returned: the rest of the handler
start_return(t, start_ok) ==
    /\ task[t].pc = "await_start"
    /\ start_agent(task[t].id, start_ok)
    /\ audit' = IF ~start_ok THEN audit
                ELSE append_audit(audit, IF task[t].op = "restart" THEN "agent.restart"
                                         ELSE "agent.start", task[t].id)
    /\ release(t)
    /\ UNCHANGED health_vars

\* stop_agent gets to adapter.stop
stop_awaits(agent_id) ==
    /\ agent_id \in DOMAIN agents
    /\ agent_id \in DOMAIN handles
    /\ agents[agent_id].runtime \in builtin_registry

\* what follows manager.stop_agent: api::stop_agent ends, with its audit event
\* after an Ok; api::restart_agent drops the result and goes on to the start
stop_done(t) ==
    IF task[t].op = "restart" THEN
         /\ goto(t, [task[t] EXCEPT !.pc = "stopped"])
         /\ UNCHANGED audit
    ELSE /\ audit' = IF last'.result = "Ok"
                     THEN append_audit(audit, "agent.stop", task[t].id) ELSE audit
         /\ release(t)

\* manager.stop_agent up to adapter.stop(handle).await
stop_prefix(t) ==
    /\ task[t].pc = "locked" /\ task[t].op \in {"stop", "restart"}
    /\ IF stop_awaits(task[t].id) THEN
            /\ goto(t, [task[t] EXCEPT !.pc = "await_stop"])
            /\ UNCHANGED <<mgr_vars, now, chan_vars, audit>>
       ELSE
            /\ stop_agent(task[t].id, TRUE)
            /\ stop_done(t)
    /\ UNCHANGED health_vars

\* adapter.stop has returned
stop_return(t, stop_ok) ==
    /\ task[t].pc = "await_stop"
    /\ stop_agent(task[t].id, stop_ok)
    /\ stop_done(t)
    /\ UNCHANGED health_vars

\* route_and_send gets to adapter.send
send_awaits(required_capabilities, target_agent_id) ==
    LET selected == route_selected(required_capabilities, target_agent_id)
    IN  /\ selected # None
        /\ selected \in DOMAIN agents
        /\ agents[selected].state = "Running"
        /\ selected \in DOMAIN handles
        /\ agents[selected].runtime \in builtin_registry

\* a slip: the task is counted before adapter.send is awaited
before_send_mut(record) == [record EXCEPT !.task_count = @ + 1]

\* the record of the selected agent while adapter.send is awaited
before_send(record) == record

\* manager.route_and_send up to adapter.send(..).await, in api::send_task:
\* select_agent has moved round_robin_index on
send_prefix(t, required_capabilities) ==
    /\ task[t].pc = "locked" /\ task[t].op = "send"
    /\ IF send_awaits(required_capabilities, task[t].target) THEN
            LET selected == route_selected(required_capabilities, task[t].target)
            IN  /\ round_robin_index' = IF task[t].target = None
                                        THEN round_robin_index + 1 ELSE round_robin_index
                /\ agents' = [agents EXCEPT ![selected] = before_send(@)]
                /\ goto(t, [task[t] EXCEPT !.pc = "await_send", !.id = selected])
                /\ UNCHANGED <<handles, next_id, last, dispatched, now, chan_vars>>
       ELSE
            /\ route_and_send(required_capabilities, task[t].target, TRUE)
            /\ release(t)
    /\ UNCHANGED <<health_vars, audit>>

\* adapter.send has returned: the rest of route_and_send and of api::send_task
send_return(t, required_capabilities, send_ok) ==
    LET selected == task[t].id
    IN
    /\ task[t].pc = "await_send"
    /\ agents' = [agents EXCEPT ![selected] = after_send(@, send_ok)]
    /\ dispatched' = IF send_ok THEN [dispatched EXCEPT ![selected] = @ + 1]
                     ELSE dispatched
    /\ last' = CallResult("route", selected, task[t].target, required_capabilities,
                          IF send_ok THEN "Ok" ELSE "AdapterFailure",
                          IF task[t].target = None THEN selected ELSE None,
                          {<<"send", selected>>})
    /\ audit' = IF send_ok THEN append_audit(audit, "task.send", selected) ELSE audit
    /\ release(t)
    /\ UNCHANGED <<handles, next_id, round_robin_index, now, chan_vars, health_vars>>

\* refresh_health_with_base_backoff_ms reads the clock and collects the ids,
\* in api::health_summary and in the monitor task
refresh_begin(t) ==
    /\ task[t].pc = "locked" /\ task[t].op \in {"health", "tick"}
    /\ goto(t, [task[t] EXCEPT !.pc = "refresh", !.time = now,
                               !.todo = DOMAIN agents, !.calls = {}])
    /\ UNCHANGED <<mgr_vars, now, chan_vars, health_vars, audit>>

\* one turn of the loop of refresh_health, up to adapter.health(handle).await
\* or, for an agent without a handle or an adapter, to its end
refresh_turn(t, a) ==
    /\ task[t].pc = "refresh"
    /\ a \in task[t].todo
    /\ IF a \in polled THEN
            /\ agents' = [agents EXCEPT ![a].last_health_check_unix_ms = task[t].time]
            /\ goto(t, [task[t] EXCEPT !.pc = "await_health", !.id = a])
       ELSE
            /\ agents' = [agents EXCEPT ![a] =
                             refreshed(@, task[t].time, u64(base_backoff_ms), FALSE, "Err")]
            /\ goto(t, [task[t] EXCEPT !.todo = @ \ {a}])
    /\ UNCHANGED <<handles, next_id, round_robin_index, last, dispatched, now,
                   chan_vars, health_vars, audit>>

\* adapter.health has returned result: the rest of the turn
health_return(t, result) ==
    LET a == task[t].id
    IN
    /\ task[t].pc = "await_health"
    /\ health_script[a] # None =>
           result = IF health_script[a] > 0 THEN "Err" ELSE "Healthy"
    /\ agents' = [agents EXCEPT ![a] =
                     refreshed(@, task[t].time, u64(base_backoff_ms), TRUE, result)]
    /\ health_hist' = [health_hist EXCEPT ![a] =
                          [poll |-> IF result = "Err" THEN "Err" ELSE "Ok",
                           recovered |-> FALSE]]
    /\ health_script' = [health_script EXCEPT ![a] =
                            IF @ # None /\ @ > 0 THEN @ - 1 ELSE @]
    /\ goto(t, [task[t] EXCEPT !.pc = "refresh", !.todo = @ \ {a},
                               !.calls = @ \cup {<<"health", a>>}])
    /\ UNCHANGED <<handles, next_id, round_robin_index, last, dispatched, now,
                   chan_vars, audit>>

\* a slip: the monitor lets go of the lock after refresh_health
monitor_guard_mut(t) == Unlocked

\* the holder of the lock between the two calls of the monitor: its guard
\* `manager` lives until drop(manager)
monitor_guard(t) == t

\* the loop of refresh_health is over: api::health_summary ends; the monitor
\* goes on to recover_degraded, which reads the clock and collects the due ids
refresh_end(t) ==
    /\ task[t].pc = "refresh"
    /\ task[t].todo = {}
    /\ last' = CallResult("refresh_health", None, None, <<>>, "Ok", None, task[t].calls)
    /\ IF task[t].op = "tick" THEN
            /\ task' = [task EXCEPT ![t] = [@ EXCEPT !.pc = "recover", !.time = now,
                                                     !.todo = due_ids, !.calls = {}]]
            /\ lock' = monitor_guard(t)
       ELSE release(t)
    /\ UNCHANGED <<agents, handles, next_id, round_robin_index, dispatched, now,
                   chan_vars, health_vars, audit>>

\* one turn of the loop of recover_degraded, up to adapter.restart(handle).await
\* or adapter.start(&config).await
recover_turn(t, a) ==
    /\ task[t].pc = "recover"
    /\ a \in task[t].todo
    /\ IF agents[a].runtime \in builtin_registry
       THEN goto(t, [task[t] EXCEPT !.pc = "await_restart", !.id = a])
       ELSE goto(t, [task[t] EXCEPT !.todo = @ \ {a}])
    /\ UNCHANGED <<mgr_vars, now, chan_vars, health_vars, audit>>

\* adapter.restart, or adapter.start, has returned: the rest of the turn
restart_return(t, restart_ok) ==
    LET a == task[t].id
    IN
    /\ task[t].pc = "await_restart"
    /\ handles' = IF a \in DOMAIN handles \/ ~restart_ok THEN handles
                  ELSE [b \in DOMAIN handles \cup {a} |->
                           IF b = a THEN AgentHandle(a) ELSE handles[b]]
    /\ agents' = [agents EXCEPT ![a] = recovered(@, restart_ok)]
    /\ health_hist' = IF restart_ok THEN [health_hist EXCEPT ![a].recovered = TRUE]
                      ELSE health_hist
    /\ goto(t, [task[t] EXCEPT
                  !.pc = "recover", !.todo = @ \ {a},
                  !.calls = @ \cup {<<IF a \in DOMAIN handles THEN "restart" ELSE "start", a>>}])
    /\ UNCHANGED <<next_id, round_robin_index, last, dispatched, now, chan_vars,
                   health_script, audit>>

\* the loop of recover_degraded is over: drop(manager) in the monitor task
recover_end(t) ==
    /\ task[t].pc = "recover"
    /\ task[t].todo = {}
    /\ last' = CallResult("recover_degraded", None, None, <<>>, "Ok", None, task[t].calls)
    /\ lock' = Unlocked
    /\ task' = [task EXCEPT ![t] = [Idle EXCEPT !.op = "tick", !.pc = "audit"]]
    /\ UNCHANGED <<agents, handles, next_id, round_robin_index, dispatched, now,
                   chan_vars, health_vars, audit>>

\* append_audit(&state.audit, "health.tick", "fleet"), the lock dropped
tick_audit(t) ==
    /\ task[t].pc = "audit"
    /\ audit' = append_audit(audit, "health.tick", "fleet")
    /\ task' = [task EXCEPT ![t] = Idle]
    /\ UNCHANGED <<mgr_vars, now, chan_vars, health_vars, lock>>

\* the future of the task is dropped at an await point (the client has gone,
\* the runtime shuts down): its guard is dropped with it, and what follows the
\* await is never run
cancel(t) ==
    /\ task[t].pc \in AwaitPoints
    /\ last' = CallResult(task[t].op, task[t].id, None, <<>>, "Cancelled", None,
                          task[t].calls)
    /\ release(t)
    /\ UNCHANGED <<agents, handles, next_id, round_robin_index, dispatched, now,
                   chan_vars, health_vars, audit>>

(* ------------------------------ audit.rs ------------------------------- *)
\* a slip: the vector is entered without the mutex
can_lock_mut(holder) == TRUE

\* self.inner.lock() returns when no task holds the mutex
can_lock(holder) == holder = Unlocked

\* AuditLog::append(event) by task t: self.inner.lock()
audit_lock(t, event) ==
    /\ appender[t].pc = "idle"
    /\ can_lock(audit_mutex)
    /\ audit_mutex' = t
    /\ appender' = [appender EXCEPT ![t] = [pc |-> "locked", event |-> event, len |-> 0]]
    /\ emitted' = [emitted EXCEPT ![t] = Append(@, event)]
    /\ UNCHANGED <<audit, listed>>

\* guard.push(event): the length of the vector is read
audit_push_len(t) ==
    /\ appender[t].pc = "locked"
    /\ appender' = [appender EXCEPT ![t].pc = "push", ![t].len = Len(audit)]
    /\ UNCHANGED <<audit, audit_mutex, emitted, listed>>

\* guard.push(event): the event is written at the length read and the length
\* is set to one more; the guard is dropped
audit_push_write(t) ==
    /\ appender[t].pc = "push"
    /\ audit' = Append(SubSeq(audit, 1, appender[t].len), appender[t].event)
    /\ audit_mutex' = Unlocked
    /\ appender' = [appender EXCEPT ![t] = [pc |-> "idle", event |-> <<>>, len |-> 0]]
    /\ UNCHANGED <<emitted, listed>>

\* AuditLog::list(): a clone of the vector, taken under the mutex
audit_list(t) ==
    /\ appender[t].pc = "idle"
    /\ can_lock(audit_mutex)
    /\ listed' = audit
    /\ UNCHANGED <<audit, audit_mutex, appender, emitted>>

(* ------------------------------- api.rs -------------------------------- *)
\* The handlers as single steps: a handler holds the write lock of what it
\* changes from its first statement to its last.

\* the status of the response of start_agent, stop_agent, restart_agent and
\* send_task: .map_err(|e| (StatusCode::BAD_REQUEST, e)) on every error of
\* the manager, 200 OK otherwise
status_code(result) == IF result = "Ok" THEN "OK" ELSE "BAD_REQUEST"

\* the audit log after a handler that appends its event once the call it made
\* has returned Ok
audit_if_ok(result, action, target) ==
    IF result = "Ok" THEN append_audit(audit, action, target) ELSE audit

\* api::register_agent
api_register_agent(runtime, capabilities) ==
    /\ register_agent(runtime, capabilities)
    /\ audit' = append_audit(audit, "agent.register", next_id)

\* api::start_agent
api_start_agent(agent_id, start_ok) ==
    /\ start_agent(agent_id, start_ok)
    /\ audit' = audit_if_ok(last'.result, "agent.start", agent_id)

\* api::stop_agent
api_stop_agent(agent_id, stop_ok) ==
    /\ stop_agent(agent_id, stop_ok)
    /\ audit' = audit_if_ok(last'.result, "agent.stop", agent_id)

\* what manager.stop_agent(agent_id) leaves of the records ags and the
\* handles hs, and its result
stop_outcome(ags, hs, agent_id, stop_ok) ==
    LET to_stopped == IF can_transition_to(ags[agent_id].state, "Stopped")
                      THEN [ags EXCEPT ![agent_id].state = "Stopped"] ELSE ags
    IN  IF agent_id \notin DOMAIN ags THEN
             [agents |-> ags, handles |-> hs, result |-> "NotFound", calls |-> {}]
        ELSE IF agent_id \notin DOMAIN hs THEN
             [agents |-> to_stopped, handles |-> hs, result |-> "Ok", calls |-> {}]
        ELSE IF ags[agent_id].runtime \notin builtin_registry THEN
             [agents |-> ags, handles |-> hs, result |-> "NoAdapter", calls |-> {}]
        ELSE IF ~stop_ok THEN
             [agents |-> ags, handles |-> hs, result |-> "AdapterFailure",
              calls |-> {<<"stop", agent_id>>}]
        ELSE [agents |-> to_stopped,
              handles |-> [a \in DOMAIN hs \ {agent_id} |-> hs[a]],
              result |-> "Ok", calls |-> {<<"stop", agent_id>>}]

\* what manager.start_agent(agent_id) leaves of the records ags and the
\* handles hs, and its result
start_outcome(ags, hs, agent_id, start_ok) ==
    IF agent_id \notin DOMAIN ags THEN
         [agents |-> ags, handles |-> hs, result |-> "NotFound", calls |-> {}]
    ELSE IF ags[agent_id].runtime \notin builtin_registry THEN
         [agents |-> ags, handles |-> hs, result |-> "NoAdapter", calls |-> {}]
    ELSE IF /\ ~can_transition_to(ags[agent_id].state, "Running")
            /\ ags[agent_id].state # "Registered" THEN
         [agents |-> ags, handles |-> hs, result |-> "InvalidTransition", calls |-> {}]
    ELSE IF ~start_ok THEN
         [agents |-> ags, handles |-> hs, result |-> "AdapterFailure",
          calls |-> {<<"start", agent_id>>}]
    ELSE [agents |-> [ags EXCEPT ![agent_id].state = "Running",
                                 ![agent_id].health = "Unknown"],
          handles |-> [a \in DOMAIN hs \cup {agent_id} |->
                          IF a = agent_id
                          THEN [agent |-> agent_id, runtime |-> ags[agent_id].runtime]
                          ELSE hs[a]],
          result |-> "Ok", calls |-> {<<"start", agent_id>>}]

\* api::restart_agent: the result of the stop is dropped, the start decides
api_restart_agent(agent_id, stop_ok, start_ok) ==
    LET stop == stop_outcome(agents, handles, agent_id, stop_ok)
        start == start_outcome(stop.agents, stop.handles, agent_id, start_ok)
    IN
    /\ agents' = start.agents
    /\ handles' = start.handles
    /\ last' = CallResult("restart", agent_id, None, <<>>, start.result, None,
                          stop.calls \cup start.calls)
    /\ audit' = audit_if_ok(start.result, "agent.restart", agent_id)
    /\ UNCHANGED <<next_id, round_robin_index, now, dispatched, chan_vars>>

\* api::deploy_runtime with no channels in the request: register_agent, then
\* start_agent, then the event whatever the start returned
api_deploy_runtime(runtime, capabilities, start_ok) ==
    LET id == next_id
        record == [id |-> id,
                   runtime |-> runtime,
                   capabilities |-> capabilities,
                   state |-> "Registered",
                   task_count |-> 0,
                   health |-> "Unknown",
                   consecutive_health_failures |-> u32(0),
                   last_health_check_unix_ms |-> None,
                   next_recovery_attempt_unix_ms |-> None]
        start == start_outcome(Append(agents, record), handles, id, start_ok)
    IN
    /\ agents' = start.agents
    /\ handles' = start.handles
    /\ next_id' = fetch_add(next_id, 1)
    /\ dispatched' = Append(dispatched, 0)
    /\ last' = CallResult("deploy", id, None, <<>>, start.result, None, start.calls)
    /\ audit' = append_audit(audit, "runtime.deploy", id)
    /\ UNCHANGED <<round_robin_index, now, chan_vars>>

\* api::health_summary: manager.refresh_health(), and no event
api_health_summary(health_result) ==
    /\ refresh_health_with_base_backoff_ms(u64(base_backoff_ms), health_result)
    /\ UNCHANGED audit

\* api::send_task
api_send_task(required_capabilities, target_agent_id, send_ok) ==
    /\ route_and_send(required_capabilities, target_agent_id, send_ok)
    /\ audit' = audit_if_ok(last'.result, "task.send", last'.id)

\* api::create_binding
api_create_binding(instance_id, channel_type, bot_token) ==
    /\ bind(instance_id, channel_type, bot_token)
    /\ audit' = audit_if_ok(chan_last'.result, "channel.bind", instance_id)

\* api::delete_binding
api_delete_binding(binding_id, key) ==
    /\ unbind(binding_id, key)
    /\ audit' = audit_if_ok(chan_last'.result, "channel.unbind", chan_last'.instance_id)

(* ------------------------------ process.rs ----------------------------- *)

\* Time is counted in ticks of 100 ms, the period of the liveness poll of stop.
TicksPerSecond == 10

\* for _ in 0..20 in ProcessManager::stop
StopPolls == 20

\* thread::sleep(Duration::from_millis(100)) in ProcessManager::stop
PollTicks == 1

\* sleep 2 in cleanup() of the supervisor script
GraceSeconds == 2

\* backoff=1 in the supervisor script
InitialBackoff == 1

\* the cap of the backoff in the supervisor script
BackoffCap == 30

\* the exit status the shell reports for a process ended by SIGTERM, by SIGKILL
ExitByTerm == 143
ExitByKill == 137

\* the --restart= policy that start_direct recognises, and its absence
RestartPolicy == {"none", "on-failure"}

\* no supervisor has been spawned
NoSupervisor ==
    [pc |-> "none", alive |-> FALSE, child_pid |-> "", backoff |-> InitialBackoff,
     pending |-> FALSE, sleep |-> 0, status |-> None, crashes |-> 0]

\* no runtime process has been launched
NoChild ==
    [state |-> "none", ignores_term |-> FALSE, exit_code |-> None, launches |-> 0]

\* no stop call has been made
NoStop ==
    [pc |-> "idle", polls |-> 0, sleep |-> 0, elapsed |-> 0, sent |-> <<>>,
     saw |-> "", result |-> ""]

\* no start_direct call has been made
NoStart == [pc |-> "idle", policy |-> "none", ignores_term |-> FALSE]

\* no list_statuses call has been made
NoList == [saw |-> "", result |-> ""]

\* ProcessManager::new: the state directory holds no PID file
ProcessManager_new ==
    /\ pid_file = "absent"
    /\ starter = NoStart
    /\ stopper = NoStop
    /\ lister = NoList
    /\ sup = NoSupervisor
    /\ child = NoChild
    /\ audit_file = <<>>

\* a signal delivered to the runtime process: KILL ends it, TERM ends it
\* unless the executable ignores TERM
child_signal(c, sig) ==
    IF c.state # "running" THEN c
    ELSE IF sig = "KILL"
         THEN [c EXCEPT !.state = "exited", !.exit_code = ExitByKill]
    ELSE IF c.ignores_term THEN c
    ELSE [c EXCEPT !.state = "exited", !.exit_code = ExitByTerm]

\* a signal delivered to the supervisor shell: KILL ends it at once, INT and
\* TERM are trapped (trap cleanup INT TERM) and stay pending until the shell
\* runs the trap
sup_signal(s, sig) ==
    IF ~s.alive THEN s
    ELSE IF sig = "KILL"
         THEN [s EXCEPT !.alive = FALSE, !.pc = "killed", !.sleep = 0,
                        !.status = ExitByKill]
    ELSE [s EXCEPT !.pending = TRUE]

\* the runtime process the shell launches with "$exec_path" "$@" ... &
launched(c, ignores_term) ==
    [state |-> "running", ignores_term |-> ignores_term, exit_code |-> None,
     launches |-> c.launches + 1]

\* the process whose pid start_direct stored in the PID file is the supervisor
\* shell under --restart=on-failure and the runtime process otherwise
supervised == starter.policy = "on-failure"

\* is_pid_running on the pid of the PID file
is_pid_running == IF supervised THEN sup.alive ELSE child.state = "running"

\* Command::new("kill").args([sig, &pid]) of stop
kill(sig) ==
    IF supervised
    THEN sup' = sup_signal(sup, sig) /\ UNCHANGED child
    ELSE child' = child_signal(child, sig) /\ UNCHANGED sup

\* command.spawn() of start_direct
spawn(policy, ignores_term) ==
    IF policy = "on-failure"
    THEN /\ sup' = [NoSupervisor EXCEPT !.pc = "launch", !.alive = TRUE]
         /\ UNCHANGED child
    ELSE /\ child' = launched(child, ignores_term)
         /\ UNCHANGED sup

\* ProcessManager::start_direct as one step: spawn, then write_pid_file
start_direct(policy, ignores_term) ==
    /\ starter.pc = "idle"
    /\ spawn(policy, ignores_term)
    /\ pid_file' = "complete"
    /\ starter' = [pc |-> "done", policy |-> policy, ignores_term |-> ignores_term]
    /\ UNCHANGED <<stopper, lister, audit_file>>

\* start_direct up to command.spawn()
start_spawn(policy, ignores_term) ==
    /\ starter.pc = "idle"
    /\ spawn(policy, ignores_term)
    /\ starter' = [pc |-> "spawned", policy |-> policy, ignores_term |-> ignores_term]
    /\ UNCHANGED <<pid_file, stopper, lister, audit_file>>

\* write_pid_file: File::create creates or truncates the file
write_create ==
    /\ starter.pc = "spawned"
    /\ pid_file' = "empty"
    /\ starter' = [starter EXCEPT !.pc = "created"]
    /\ UNCHANGED <<stopper, lister, sup, child, audit_file>>

\* write_pid_file: file.write_all(body), and start_direct returns
write_all ==
    /\ starter.pc = "created"
    /\ pid_file' = "complete"
    /\ starter' = [starter EXCEPT !.pc = "done"]
    /\ UNCHANGED <<stopper, lister, sup, child, audit_file>>

\* read_pid_file: Ok(None) when the path does not exist, the parsed
\* ProcessInfo when the body is complete, the error of serde_json otherwise
read_pid_file(file) ==
    IF file = "absent" THEN "None"
    ELSE IF file = "complete" THEN "Some"
    ELSE "Err"

\* stop: read_pid_file; no PID file returns Ok, an error is propagated by `?`
stop_read ==
    /\ stopper.pc \in {"idle", "done"}
    /\ stopper' = IF read_pid_file(pid_file) = "Some"
                  THEN [NoStop EXCEPT !.pc = "term", !.saw = pid_file]
                  ELSE [NoStop EXCEPT !.pc = "done", !.saw = pid_file,
                           !.result = IF read_pid_file(pid_file) = "None"
                                      THEN "Ok" ELSE "Err"]
    /\ UNCHANGED <<pid_file, starter, lister, sup, child, audit_file>>

\* stop: kill -TERM pid
stop_term ==
    /\ stopper.pc = "term"
    /\ kill("TERM")
    /\ stopper' = [stopper EXCEPT !.pc = "poll", !.sent = Append(@, "TERM")]
    /\ UNCHANGED <<pid_file, starter, lister, audit_file>>

\* stop: one turn of the loop: a process that is gone removes the PID file
\* and returns Ok, a live one is given another 100 ms
stop_poll ==
    /\ stopper.pc = "poll"
    /\ IF ~is_pid_running
       THEN /\ pid_file' = "absent"
            /\ stopper' = [stopper EXCEPT !.pc = "done", !.result = "Ok"]
       ELSE /\ stopper' = [stopper EXCEPT !.pc = "sleep", !.sleep = PollTicks,
                                          !.polls = @ + 1]
            /\ UNCHANGED pid_file
    /\ UNCHANGED <<starter, lister, sup, child, audit_file>>

\* the loop of stop ends after StopPolls turns
grace_over_mut(polls) == polls >= 1
grace_over(polls) == polls >= StopPolls

\* stop: thread::sleep has returned
stop_wake ==
    /\ stopper.pc = "sleep"
    /\ stopper.sleep = 0
    /\ stopper' = [stopper EXCEPT
                     !.pc = IF grace_over(stopper.polls) THEN "kill" ELSE "poll"]
    /\ UNCHANGED <<pid_file, starter, lister, sup, child, audit_file>>

\* stop: kill -KILL pid, remove_pid_file, Ok
stop_kill ==
    /\ stopper.pc = "kill"
    /\ kill("KILL")
    /\ pid_file' = "absent"
    /\ stopper' = [stopper EXCEPT !.pc = "done", !.result = "Ok",
                                  !.sent = Append(@, "KILL")]
    /\ UNCHANGED <<starter, lister, audit_file>>

\* list_statuses on the PID file of the runtime
list_statuses ==
    /\ lister' = [saw |-> pid_file,
                  result |-> IF read_pid_file(pid_file) = "Err" THEN "Err" ELSE "Ok"]
    /\ UNCHANGED <<pid_file, starter, stopper, sup, child, audit_file>>

\* the runtime process ends by itself with the given exit code
child_exit(code) ==
    /\ child.state = "running"
    /\ child' = [child EXCEPT !.state = "exited", !.exit_code = code]
    /\ UNCHANGED <<pid_file, starter, stopper, lister, sup, audit_file>>

(* ------------------------ the supervisor script ------------------------ *)

\* the shell runs the commands of the loop while no trapped signal is pending
runs(pc) == sup.alive /\ sup.pc = pc /\ ~sup.pending

\* "$exec_path" "$@" >>"$log_path" 2>&1 &
sup_launch ==
    /\ runs("launch")
    /\ child' = launched(child, starter.ignores_term)
    /\ sup' = [sup EXCEPT !.pc = "record"]
    /\ UNCHANGED <<pid_file, starter, stopper, lister, audit_file>>

\* child_pid="$!"
sup_record ==
    /\ runs("record")
    /\ sup' = [sup EXCEPT !.pc = "wait", !.child_pid = "child"]
    /\ UNCHANGED <<pid_file, starter, stopper, lister, child, audit_file>>

\* if [ "$exit_code" -eq 0 ]
succeeded_mut(exit_code) == TRUE
succeeded(exit_code) == exit_code = 0

\* wait "$child_pid" returns; exit_code="$?"; child_pid=""; exit 0 when the
\* exit code is 0
sup_reap ==
    /\ runs("wait")
    /\ child.state = "exited"
    /\ sup' = IF succeeded(child.exit_code)
              THEN [sup EXCEPT !.pc = "exited", !.alive = FALSE, !.child_pid = "",
                               !.status = 0]
              ELSE [sup EXCEPT !.pc = "crash", !.child_pid = "",
                               !.crashes = @ + 1]
    /\ UNCHANGED <<pid_file, starter, stopper, lister, child, audit_file>>

\* printf "%s\truntime.crash\t%s\texit:%s\n" >>"$audit_path"
sup_crash_line ==
    /\ runs("crash")
    /\ audit_file' = Append(audit_file, <<"runtime.crash", child.exit_code>>)
    /\ sup' = [sup EXCEPT !.pc = "restart"]
    /\ UNCHANGED <<pid_file, starter, stopper, lister, child>>

\* printf "%s\truntime.restart\t%s\tbackoff:%s\n" >>"$audit_path", and the
\* shell starts sleep "$backoff"
sup_restart_line ==
    /\ runs("restart")
    /\ audit_file' = Append(audit_file, <<"runtime.restart", sup.backoff>>)
    /\ sup' = [sup EXCEPT !.pc = "sleep", !.sleep = sup.backoff * TicksPerSecond]
    /\ UNCHANGED <<pid_file, starter, stopper, lister, child>>

\* sleep "$backoff" has returned: a foreground command is not interrupted by
\* a trapped signal, the trap runs after it
sup_sleep_done ==
    /\ sup.alive
    /\ sup.pc = "sleep"
    /\ sup.sleep = 0
    /\ sup' = [sup EXCEPT !.pc = "backoff"]
    /\ UNCHANGED <<pid_file, starter, stopper, lister, child, audit_file>>

\* if [ "$backoff" -lt 30 ]; then backoff=$((backoff * 2)); if [ "$backoff"
\* -gt 30 ]; then backoff=30; fi; fi
next_backoff_mut(backoff) ==
    IF backoff < BackoffCap THEN backoff * 2 ELSE backoff
next_backoff(backoff) ==
    IF backoff < BackoffCap
    THEN IF backoff * 2 > BackoffCap THEN BackoffCap ELSE backoff * 2
    ELSE backoff

\* the end of one turn of the loop
sup_backoff ==
    /\ runs("backoff")
    /\ sup' = [sup EXCEPT !.pc = "launch", !.backoff = next_backoff(sup.backoff)]
    /\ UNCHANGED <<pid_file, starter, stopper, lister, child, audit_file>>

\* the positions at which the shell runs a pending trap: between two
\* commands, and in the wait builtin, which a trapped signal interrupts
TrapPoints == {"launch", "record", "wait", "crash", "restart", "backoff"}

\* the shell enters cleanup()
sup_trap ==
    /\ sup.alive
    /\ sup.pending
    /\ sup.pc \in TrapPoints
    /\ sup' = [sup EXCEPT !.pc = "cleanup", !.pending = FALSE]
    /\ UNCHANGED <<pid_file, starter, stopper, lister, child, audit_file>>

\* cleanup(): with a recorded child_pid, kill -TERM and start sleep 2;
\* without one, exit 0
sup_cleanup ==
    /\ sup.alive
    /\ sup.pc = "cleanup"
    /\ IF sup.child_pid # ""
       THEN /\ child' = child_signal(child, "TERM")
            /\ sup' = [sup EXCEPT !.pc = "cleanup_sleep",
                                  !.sleep = GraceSeconds * TicksPerSecond]
       ELSE /\ sup' = [sup EXCEPT !.pc = "exited", !.alive = FALSE, !.status = 0]
            /\ UNCHANGED child
    /\ UNCHANGED <<pid_file, starter, stopper, lister, audit_file>>

\* cleanup(): sleep 2 has returned; kill -KILL "$child_pid"; exit 0
sup_cleanup_kill ==
    /\ sup.alive
    /\ sup.pc = "cleanup_sleep"
    /\ sup.sleep = 0
    /\ child' = child_signal(child, "KILL")
    /\ sup' = [sup EXCEPT !.pc = "exited", !.alive = FALSE, !.status = 0]
    /\ UNCHANGED <<pid_file, starter, stopper, lister, audit_file>>

\* SIGINT or SIGTERM is sent to the supervisor from outside
sup_receive(sig) ==
    /\ sup.alive
    /\ sup.pc \notin {"cleanup", "cleanup_sleep"}
    /\ sup' = sup_signal(sup, sig)
    /\ UNCHANGED <<pid_file, starter, stopper, lister, child, audit_file>>

(* -------------------------------- time --------------------------------- *)

\* the stop call is in thread::sleep
stop_sleeping == stopper.pc = "sleep" /\ stopper.sleep > 0

\* the supervisor is in a sleep command
sup_sleeping == sup.alive /\ sup.pc \in {"sleep", "cleanup_sleep"} /\ sup.sleep > 0

\* the stop call has a step to take that needs no time to pass
stop_ready ==
    \/ stopper.pc \in {"term", "poll", "kill"}
    \/ stopper.pc = "sleep" /\ stopper.sleep = 0

\* the supervisor has a step to take that needs no time to pass
sup_ready ==
    /\ sup.alive
    /\ \/ sup.pc \in {"launch", "record", "crash", "restart", "backoff", "cleanup"}
       \/ sup.pc \in {"sleep", "cleanup_sleep"} /\ sup.sleep = 0
       \/ sup.pc = "wait" /\ (sup.pending \/ child.state = "exited")

\* start_direct is between command.spawn() and its return
start_ready == starter.pc \in {"spawned", "created"}

\* 100 ms pass: every sleeper is 100 ms nearer to its wake-up.  Commands take
\* no time: the clock moves only when nobody has a step to take.
tick ==
    /\ stop_sleeping \/ sup_sleeping
    /\ ~stop_ready /\ ~sup_ready /\ ~start_ready
    /\ stopper' = IF stop_sleeping
                  THEN [stopper EXCEPT !.sleep = @ - 1, !.elapsed = @ + 1]
                  ELSE stopper
    /\ sup' = IF sup_sleeping THEN [sup EXCEPT !.sleep = @ - 1] ELSE sup
    /\ UNCHANGED <<pid_file, starter, lister, child, audit_file>>

(* ------------------------------ install.rs ----------------------------- *)

\* the installer processes that share ~/.clawden; the name of a process
\* stands for its pid
Installers == {"i1", "i2", "i3"}

\* the lock path does not exist
NoLockFile == [exists |-> FALSE, creator |-> "", body |-> ""]

\* RuntimeInstaller::new in each process: no lock is held
RuntimeInstaller_new ==
    /\ lock_file = NoLockFile
    /\ installer = [p \in Installers |-> [pc |-> "idle", alive |-> TRUE]]

\* OpenOptions::new().create_new(true).write(true).open(path): succeeds only
\* when the path does not exist, and leaves an empty file
create_new(p) == [exists |-> TRUE, creator |-> p, body |-> ""]

\* is_lock_active: false when the file cannot be read or its body is no pid,
\* otherwise the result of kill -0 on the pid
is_lock_active(file) ==
    /\ file.exists
    /\ file.body \in Installers
    /\ installer[file.body].alive

\* InstallLock::acquire: the first create_new
acquire_create(p) ==
    /\ installer[p].alive
    /\ installer[p].pc \in {"idle", "failed"}
    /\ IF ~lock_file.exists
       THEN /\ lock_file' = create_new(p)
            /\ installer' = [installer EXCEPT ![p].pc = "created"]
       ELSE /\ installer' = [installer EXCEPT ![p].pc = "check"]
            /\ UNCHANGED lock_file

\* InstallLock::acquire: writeln!(file, "{}", std::process::id()) on the file
\* this process created, which may have been unlinked meanwhile; Ok(Self)
acquire_write(p) ==
    /\ installer[p].alive
    /\ installer[p].pc = "created"
    /\ lock_file' = IF lock_file.exists /\ lock_file.creator = p
                    THEN [lock_file EXCEPT !.body = p]
                    ELSE lock_file
    /\ installer' = [installer EXCEPT ![p].pc = "held"]

\* InstallLock::acquire: is_lock_active(path); an active lock ends the call
\* with "install already in progress"
acquire_check(p) ==
    /\ installer[p].alive
    /\ installer[p].pc = "check"
    /\ installer' = [installer EXCEPT
                       ![p].pc = IF is_lock_active(lock_file) THEN "failed"
                                 ELSE "remove"]
    /\ UNCHANGED lock_file

\* InstallLock::acquire: let _ = fs::remove_file(path)
acquire_remove(p) ==
    /\ installer[p].alive
    /\ installer[p].pc = "remove"
    /\ lock_file' = NoLockFile
    /\ installer' = [installer EXCEPT ![p].pc = "retry"]

\* InstallLock::acquire: the second create_new, and the bail when it fails
acquire_retry(p) ==
    /\ installer[p].alive
    /\ installer[p].pc = "retry"
    /\ IF ~lock_file.exists
       THEN /\ lock_file' = create_new(p)
            /\ installer' = [installer EXCEPT ![p].pc = "created"]
       ELSE /\ installer' = [installer EXCEPT ![p].pc = "failed"]
            /\ UNCHANGED lock_file

\* Drop for InstallLock: let _ = fs::remove_file(&self.path)
lock_drop(p) ==
    /\ installer[p].alive
    /\ installer[p].pc = "held"
    /\ lock_file' = NoLockFile
    /\ installer' = [installer EXCEPT ![p].pc = "idle"]

\* an installer process is killed: no destructor runs, its lock file stays
installer_dies(p) ==
    /\ installer[p].alive
    /\ installer[p].pc # "idle"
    /\ installer' = [installer EXCEPT ![p].alive = FALSE]
    /\ UNCHANGED lock_file

(* --------------------- start_direct calls, repeated -------------------- *)

\* One runtime under a sequence of whole start_direct and stop calls; the
\* runtime is started without a restart policy. tracker.running is the set of
\* the pids spawned for it that are alive, tracker.exists says that its PID
\* file exists and tracker.named is the pid the file records (None when there
\* is no file, or when the file holds no ProcessInfo), tracker.op and
\* tracker.result are the last call and what it returned.

\* no start_direct call has been made on the runtime
NoTracker ==
    [running |-> {}, next_pid |-> 1, exists |-> FALSE, named |-> None,
     op |-> "new", result |-> "Ok"]

\* what write_pid_file can do: Ok; File::create fails (the file is as it was);
\* write_all fails after File::create truncated the file
WriteOutcome == {"Ok", "CreateFails", "WriteFails"}

\* the PID file after write_pid_file(runtime, info) with info.pid = pid
written(t, pid, outcome) ==
    CASE outcome = "Ok"          -> [t EXCEPT !.exists = TRUE, !.named = pid]
      [] outcome = "CreateFails" -> t
      [] outcome = "WriteFails"  -> [t EXCEPT !.exists = TRUE, !.named = None]

\* start_direct(runtime, executable, args) from command.spawn() on: spawn_ok
\* is the outcome of the spawn, outcome that of write_pid_file
tracked_start(spawn_ok, outcome) ==
    IF ~spawn_ok THEN
         tracker' = [tracker EXCEPT !.op = "start", !.result = "Err"]
    ELSE LET pid == tracker.next_pid
             spawned == [tracker EXCEPT !.running = @ \cup {pid}, !.next_pid = pid + 1]
         IN  tracker' = [written(spawned, pid, outcome) EXCEPT
                            !.op = "start",
                            !.result = IF outcome = "Ok" THEN "Ok" ELSE "Err"]

\* stop(runtime): Ok at once without a PID file, Err when the file does not
\* parse; else the recorded pid is signalled until it is gone (TERM, then KILL)
\* and the file is removed
tracked_stop ==
    IF ~tracker.exists THEN
         tracker' = [tracker EXCEPT !.op = "stop", !.result = "Ok"]
    ELSE IF tracker.named = None THEN
         tracker' = [tracker EXCEPT !.op = "stop", !.result = "Err"]
    ELSE tracker' = [tracker EXCEPT !.running = @ \ {tracker.named},
                                    !.exists = FALSE,
                                    !.named = None,
                                    !.op = "stop",
                                    !.result = "Ok"]

\* a spawned process exits on its own
tracked_exit(pid) ==
    /\ pid \in tracker.running
    /\ tracker' = [tracker EXCEPT !.running = @ \ {pid}, !.op = "exit", !.result = "Ok"]

(* --------------------------- specifications ---------------------------- *)
\* no can_transition_to call yet
NoTransitionCall == [self |-> "", next |-> "", result |-> TRUE]

\* no backoff_ms call yet
NoBackoffCall == [base_ms |-> u64(0), failures |-> u32(0), result |-> u64(0)]

Init ==
    /\ LifecycleManager_new
    /\ ChannelStore_new
    /\ now = 0
    /\ sel_run = <<>>
    /\ sel_ctx = [elig |-> {}, counts |-> <<>>]
    /\ health_hist = <<>>
    /\ health_script = <<>>
    /\ backoff_call = NoBackoffCall
    /\ transition_call = NoTransitionCall
    /\ AuditLog_default
    /\ ProcessManager_new
    /\ RuntimeInstaller_new
    /\ tracker = NoTracker
    /\ tasks_new

Ids == 1..MaxAgents

Register ==
    /\ next_id <= MaxAgents
    /\ \E input \in RegInputs : register_agent(input[1], input[2])
    /\ registered_health(None)
    /\ UNCHANGED <<sel_vars, fn_vars, log_vars, proc_vars, install_vars, tracker, task_vars>>

Start ==
    /\ \E id \in Ids, ok \in BOOLEAN : start_agent(id, ok)
    /\ UNCHANGED <<sel_vars, health_vars, fn_vars, log_vars, proc_vars, install_vars, tracker, task_vars>>

Stop ==
    /\ \E id \in Ids, ok \in BOOLEAN : stop_agent(id, ok)
    /\ UNCHANGED <<sel_vars, health_vars, fn_vars, log_vars, proc_vars, install_vars, tracker, task_vars>>

RefreshHealth ==
    /\ \E result \in [polled -> HealthOk \cup {"Err"}] :
          /\ \A a \in polled : result[a] = "Err" =>
                 wide_less(agents[a].consecutive_health_failures, u32(MaxFailures))
          /\ scripted(result)
          /\ refresh_health_with_base_backoff_ms(u64(base_backoff_ms), result)
          /\ polled_health(result)
    /\ UNCHANGED <<sel_vars, fn_vars, log_vars, proc_vars, install_vars, tracker, task_vars>>

RecoverDegraded ==
    /\ \E ok \in [due_ids -> BOOLEAN] :
          /\ recover_degraded(ok)
          /\ recovered_health(ok)
    /\ UNCHANGED <<sel_vars, fn_vars, log_vars, proc_vars, install_vars, tracker, task_vars>>

RouteAndSend ==
    /\ round_robin_index < MaxSelect
    /\ \E caps \in ReqCaps, target \in Ids \cup {None}, ok \in BOOLEAN :
          /\ ok => SumSeq(dispatched) < MaxTasks
          /\ route_and_send(caps, target, ok)
    /\ UNCHANGED <<sel_vars, health_vars, fn_vars, log_vars, proc_vars, install_vars, tracker, task_vars>>

ClockTick ==
    /\ now < MaxTicks * base_backoff_ms
    /\ Tick
    /\ UNCHANGED <<sel_vars, health_vars, fn_vars, log_vars, proc_vars, install_vars, tracker, task_vars>>

Next ==
    \/ Register
    \/ Start
    \/ Stop
    \/ RefreshHealth
    \/ RecoverDegraded
    \/ RouteAndSend
    \/ ClockTick

\* the LifecycleManager under every interleaving of its operations
Spec == Init /\ [][Next]_vars

Bind ==
    /\ next_binding_id < MaxBinds
    /\ \E i \in InstanceIds, t \in ChannelTypeInputs, tok \in BotTokens : bind(i, t, tok)
    /\ UNCHANGED <<sel_vars, health_vars, fn_vars, log_vars, proc_vars, install_vars, tracker, task_vars>>

Unbind ==
    /\ \E id \in 0..MaxBinds, key \in DOMAIN bindings \cup {<<>>} : unbind(id, key)
    /\ UNCHANGED <<sel_vars, health_vars, fn_vars, log_vars, proc_vars, install_vars, tracker, task_vars>>

NextChannels ==
    \/ Bind
    \/ Unbind
    \/ ClockTick

RouterRegister ==
    /\ next_id <= RouterAgents
    /\ \E input \in RouterRegInputs : register_agent(input[1], input[2])
    /\ registered_health(None)
    /\ UNCHANGED <<sel_vars, fn_vars, log_vars, proc_vars, install_vars, tracker, task_vars>>

RouterStart ==
    /\ \E id \in DOMAIN agents : start_agent(id, TRUE)
    /\ UNCHANGED <<sel_vars, health_vars, fn_vars, log_vars, proc_vars, install_vars, tracker, task_vars>>

RouterStop ==
    /\ \E id \in DOMAIN agents : stop_agent(id, TRUE)
    /\ UNCHANGED <<sel_vars, health_vars, fn_vars, log_vars, proc_vars, install_vars, tracker, task_vars>>

\* an untargeted route_and_send, with the history of the selections made for
\* one unchanged eligible set
RouterSelect ==
    /\ round_robin_index < RouterSelects
    /\ \E caps \in RouterReqCaps, ok \in BOOLEAN :
          /\ ok => SumSeq(dispatched) < RouterTasks
          /\ route_and_send(caps, None, ok)
          /\ IF select_agent(caps) # None THEN
                  /\ sel_ctx' = SelCtx(caps)
                  /\ sel_run' = IF sel_ctx = SelCtx(caps)
                                THEN LastN(Append(sel_run, select_agent(caps)), RouterAgents)
                                ELSE <<select_agent(caps)>>
             ELSE UNCHANGED sel_vars
    /\ UNCHANGED <<health_vars, fn_vars, log_vars, proc_vars, install_vars, tracker, task_vars>>

NextRouter ==
    \/ RouterRegister
    \/ RouterStart
    \/ RouterStop
    \/ RouterSelect

\* the router: fleets of Registered, Running and Stopped agents (starts and
\* stops whose adapter call succeeds) under untargeted route_and_send calls
SpecRouter == Init /\ [][NextRouter]_vars

\* the agents whose state is Running
running_ids == {a \in DOMAIN agents : agents[a].state = "Running"}

BalanceRegister ==
    /\ SumSeq(dispatched) = 0
    /\ next_id <= BalanceAgents
    /\ \E input \in RouterRegInputs : register_agent(input[1], input[2])
    /\ registered_health(None)
    /\ UNCHANGED <<sel_vars, fn_vars, log_vars, proc_vars, install_vars, tracker, task_vars>>

BalanceStart ==
    /\ SumSeq(dispatched) = 0
    /\ \E id \in DOMAIN agents : agents[id].state # "Running" /\ start_agent(id, TRUE)
    /\ UNCHANGED <<sel_vars, health_vars, fn_vars, log_vars, proc_vars, install_vars, tracker, task_vars>>

\* an untargeted route_and_send for which every Running agent is eligible and
\* whose adapter.send succeeds
BalanceDispatch ==
    /\ SumSeq(dispatched) < BalanceTasks
    /\ \E caps \in RouterReqCaps :
          /\ running_ids # {}
          /\ eligible(caps) = running_ids
          /\ route_and_send(caps, None, TRUE)
    /\ UNCHANGED <<sel_vars, health_vars, fn_vars, log_vars, proc_vars, install_vars, tracker, task_vars>>

NextBalance ==
    \/ BalanceRegister
    \/ BalanceStart
    \/ BalanceDispatch

\* the router on a fleet that is fixed once the first task is dispatched: no
\* agent is registered, started or stopped after it, and every dispatch is an
\* untargeted route_and_send that every Running agent is eligible for and
\* whose send succeeds
SpecBalance == Init /\ [][NextBalance]_vars

\* the ChannelStore under every sequence of bind and unbind
SpecChannels == Init /\ [][NextChannels]_vars

\* the failure counters explored: 0, and the last ones up to u32::MAX
CounterInputs == {u32(0)} \cup {saturating_sub(u32_MAX, k) : k \in 0..PollWindow}

\* the base backoffs explored: the default and CLAWDEN_RECOVERY_BASE_BACKOFF_MS=5000
PollBases == {u64(base_backoff_ms), u64(5 * base_backoff_ms)}

\* one PicoClaw agent, registered and started, whose health poll has failed
\* count times in a row since (the latest of them at 0 ms, with base)
InitCounter(count, base) ==
    LET started == [id |-> 1,
                    runtime |-> "PicoClaw",
                    capabilities |-> <<"chat">>,
                    state |-> "Running",
                    task_count |-> 0,
                    health |-> "Unknown",
                    consecutive_health_failures |-> u32(0),
                    last_health_check_unix_ms |-> None,
                    next_recovery_attempt_unix_ms |-> None]
        failed == [started EXCEPT
                     !.state = "Degraded",
                     !.health = "Degraded",
                     !.consecutive_health_failures = count,
                     !.last_health_check_unix_ms = 0,
                     !.next_recovery_attempt_unix_ms = to_int(backoff_ms(base, count))]
    IN
    /\ agents = <<IF count = u32(0) THEN started ELSE failed>>
    /\ handles = [a \in {1} |-> [agent |-> 1, runtime |-> "PicoClaw"]]
    /\ next_id = 2
    /\ round_robin_index = 0
    /\ last = NoCall
    /\ dispatched = <<0>>
    /\ ChannelStore_new
    /\ now = 0
    /\ sel_run = <<>>
    /\ sel_ctx = [elig |-> {}, counts |-> <<>>]
    /\ health_hist = <<IF count = u32(0) THEN NoPoll
                       ELSE [poll |-> "Err", recovered |-> FALSE]>>
    /\ health_script = <<None>>
    /\ backoff_call = NoBackoffCall
    /\ transition_call = NoTransitionCall
    /\ AuditLog_default
    /\ ProcessManager_new
    /\ RuntimeInstaller_new
    /\ tracker = NoTracker
    /\ tasks_new

\* refresh_health under a base of PollBases, on counters near 0 and near u32::MAX
CounterRefresh ==
    /\ \E base \in PollBases, result \in [polled -> HealthOk \cup {"Err"}] :
          /\ \A a \in polled : result[a] = "Err" =>
                 \/ wide_less(agents[a].consecutive_health_failures, u32(PollFailures))
                 \/ ~wide_less(agents[a].consecutive_health_failures,
                               saturating_sub(u32_MAX, PollWindow))
          /\ scripted(result)
          /\ refresh_health_with_base_backoff_ms(base, result)
          /\ polled_health(result)
    /\ UNCHANGED <<sel_vars, fn_vars, log_vars, proc_vars, install_vars, tracker, task_vars>>

NextCounter ==
    \/ CounterRefresh
    \/ RecoverDegraded
    \/ Start
    \/ Stop
    \/ ClockTick

\* the failure counter of one agent, from 0 and from the last values before
\* u32::MAX, under health polls, recoveries, starts and stops
SpecCounter ==
    /\ \E count \in CounterInputs, base \in PollBases : InitCounter(count, base)
    /\ [][NextCounter]_vars

\* the failure counts backoff_ms is applied to: 0 up to the bound, and the
\* last two u32 values
BackoffFailures ==
    {u32(k) : k \in 0..MaxBackoffFailures} \cup {saturating_sub(u32_MAX, 1), u32_MAX}

\* the bases backoff_ms is applied to: 0, 1, the defaults, the bases at which
\* the cap of 300_000 is met with 2^6 and 2^5, the cap and the value after it,
\* 2^32, 2^58 - 1 and 2^58 (where the product with 2^6 leaves the u64), u64::MAX
BackoffBases ==
    {u64(0), u64(1), u64(1000), u64(4687), u64(4688), u64(5000), u64(9375),
     u64(300000), u64(300001), <<0, 1, 0, 0>>,
     <<1023, Limb - 1, Limb - 1, Limb - 1>>, <<1024, 0, 0, 0>>, u64_MAX}

\* a call of backoff_ms
Backoff ==
    /\ \E base_ms \in BackoffBases, failures \in BackoffFailures :
          backoff_call' = [base_ms |-> base_ms, failures |-> failures,
                           result |-> backoff_ms(base_ms, failures)]
    /\ UNCHANGED <<mgr_vars, now, sel_vars, chan_vars, health_vars, task_vars,
                   transition_call, log_vars, proc_vars, install_vars, tracker>>

NextBackoff == Backoff

\* backoff_ms on the bases and failure counts above
SpecBackoff == Init /\ [][NextBackoff]_vars

\* a call of AgentState::can_transition_to
CanTransition ==
    /\ \E self \in AgentState, next \in AgentState :
          transition_call' = [self |-> self, next |-> next,
                              result |-> can_transition_to(self, next)]
    /\ UNCHANGED <<mgr_vars, now, sel_vars, chan_vars, health_vars, task_vars,
                   backoff_call, log_vars, proc_vars, install_vars, tracker>>

NextFunctions ==
    \/ Backoff
    \/ CanTransition

\* the pure functions of the server, applied in any order
SpecFunctions == Init /\ [][NextFunctions]_vars

\* the adapters explored under the monitor: one whose calls may have any
\* outcome, and one whose health call fails twice and succeeds from then on,
\* and whose restart and start succeed
MonitorScripts == {None, 2}

MonitorRegister ==
    /\ next_id <= MonitorAgents
    /\ register_agent("PicoClaw", <<"chat">>)
    /\ \E script \in MonitorScripts : registered_health(script)
    /\ UNCHANGED <<sel_vars, fn_vars, log_vars, proc_vars, install_vars, tracker, task_vars>>

MonitorStart ==
    /\ \E id \in DOMAIN agents : start_agent(id, TRUE)
    /\ UNCHANGED <<sel_vars, health_vars, fn_vars, log_vars, proc_vars, install_vars, tracker, task_vars>>

\* a turn of the monitor loop under the default base; the health calls take
\* no time, or one base backoff
MonitorTick ==
    /\ Len(audit) < MonitorTicks
    /\ \E result \in [polled -> HealthOk \cup {"Err"}], elapsed \in {0, base_backoff_ms} :
          /\ now + elapsed <= MonitorClock * base_backoff_ms
          /\ \A a \in polled : result[a] = "Err" =>
                 wide_less(agents[a].consecutive_health_failures, u32(MonitorFailures))
          /\ scripted(result)
          /\ LET checked == refresh_agents(now, u64(base_backoff_ms), result)
                 due == due_ids_at(checked, now + elapsed)
             IN  \E ok \in [due -> BOOLEAN] :
                    /\ \A a \in due : health_script[a] # None => ok[a]
                    /\ monitor_tick(u64(base_backoff_ms), result, elapsed, ok)
                    /\ ticked_health(result,
                                     {a \in tried_at(checked, now + elapsed) : ok[a]})
    /\ UNCHANGED <<sel_vars, fn_vars, log_vars, proc_vars, install_vars, tracker>>

MonitorClockTick ==
    /\ now < MonitorClock * base_backoff_ms
    /\ Tick
    /\ UNCHANGED <<sel_vars, health_vars, fn_vars, log_vars, proc_vars, install_vars, tracker, task_vars>>

NextMonitor ==
    \/ MonitorRegister
    \/ MonitorStart
    \/ MonitorTick
    \/ MonitorClockTick

\* the health monitor loop over started agents, while the clock moves on
SpecMonitor == Init /\ [][NextMonitor]_vars

ApiRegister ==
    /\ Len(audit) < ApiAudit /\ Len(agents) < ApiAgents
    /\ api_register_agent("PicoClaw", <<"chat">>)
    /\ UNCHANGED <<sel_vars, health_vars, fn_vars, log_vars, proc_vars, install_vars, tracker, lock, task>>

ApiDeploy ==
    /\ Len(audit) < ApiAudit /\ Len(agents) < ApiAgents
    /\ \E ok \in BOOLEAN : api_deploy_runtime("PicoClaw", <<"chat">>, ok)
    /\ UNCHANGED <<sel_vars, health_vars, fn_vars, log_vars, proc_vars, install_vars, tracker, lock, task>>

ApiStart ==
    /\ Len(audit) < ApiAudit
    /\ \E id \in 1..ApiAgents, ok \in BOOLEAN : api_start_agent(id, ok)
    /\ UNCHANGED <<sel_vars, health_vars, fn_vars, log_vars, proc_vars, install_vars, tracker, lock, task>>

ApiStop ==
    /\ Len(audit) < ApiAudit
    /\ \E id \in 1..ApiAgents, ok \in BOOLEAN : api_stop_agent(id, ok)
    /\ UNCHANGED <<sel_vars, health_vars, fn_vars, log_vars, proc_vars, install_vars, tracker, lock, task>>

ApiRestart ==
    /\ Len(audit) < ApiAudit
    /\ \E id \in 1..ApiAgents, stop_ok \in BOOLEAN, start_ok \in BOOLEAN :
          api_restart_agent(id, stop_ok, start_ok)
    /\ UNCHANGED <<sel_vars, health_vars, fn_vars, log_vars, proc_vars, install_vars, tracker, lock, task>>

ApiHealthSummary ==
    /\ \E result \in [polled -> HealthOk \cup {"Err"}] :
          /\ \A a \in polled : result[a] = "Err" =>
                 wide_less(agents[a].consecutive_health_failures, u32(ApiFailures))
          /\ api_health_summary(result)
    /\ UNCHANGED <<sel_vars, health_vars, fn_vars, log_vars, proc_vars, install_vars, tracker, lock, task>>

ApiSendTask ==
    /\ Len(audit) < ApiAudit
    /\ \E target \in {None} \cup (1..ApiAgents), ok \in BOOLEAN :
          /\ target = None => round_robin_index < ApiSelects
          /\ api_send_task(<<"chat">>, target, ok)
    /\ UNCHANGED <<sel_vars, health_vars, fn_vars, log_vars, proc_vars, install_vars, tracker, lock, task>>

ApiTick ==
    /\ Len(audit) < ApiAudit
    /\ \E result \in [polled -> HealthOk \cup {"Err"}] :
          /\ \A a \in polled : result[a] = "Err" =>
                 wide_less(agents[a].consecutive_health_failures, u32(ApiFailures))
          /\ LET due == due_ids_at(refresh_agents(now, u64(base_backoff_ms), result), now)
             IN  \E ok \in [due -> BOOLEAN] :
                    monitor_tick(u64(base_backoff_ms), result, 0, ok)
    /\ UNCHANGED <<sel_vars, health_vars, fn_vars, log_vars, proc_vars, install_vars, tracker>>

ApiCreateBinding ==
    /\ Len(audit) < ApiAudit /\ next_binding_id < ApiBinds
    /\ \E i \in InstanceIds, t \in {"telegram", "carrier-pigeon"} :
          api_create_binding(i, t, "TOK-1")
    /\ UNCHANGED <<sel_vars, health_vars, fn_vars, log_vars, proc_vars, install_vars, tracker, lock, task>>

ApiDeleteBinding ==
    /\ Len(audit) < ApiAudit
    /\ \E id \in 0..ApiBinds, key \in DOMAIN bindings \cup {<<>>} :
          api_delete_binding(id, key)
    /\ UNCHANGED <<sel_vars, health_vars, fn_vars, log_vars, proc_vars, install_vars, tracker, lock, task>>

ApiClockTick ==
    /\ now < ApiClock * base_backoff_ms
    /\ Tick
    /\ UNCHANGED <<sel_vars, health_vars, fn_vars, log_vars, proc_vars, install_vars, tracker, task_vars>>

NextApi ==
    \/ ApiRegister
    \/ ApiDeploy
    \/ ApiStart
    \/ ApiStop
    \/ ApiRestart
    \/ ApiHealthSummary
    \/ ApiSendTask
    \/ ApiTick
    \/ ApiCreateBinding
    \/ ApiDeleteBinding
    \/ ApiClockTick

\* the handlers of the API and the health monitor, each as one step
SpecApi == Init /\ [][NextApi]_vars

\* the events the tasks append: the task is the target
AuditActions == {"agent.start", "task.send"}

AuditLock ==
    /\ Len(emitted["monitor"]) + Len(emitted["http-1"]) + Len(emitted["http-2"])
           < AuditAppends
    /\ \E t \in Task, action \in AuditActions : audit_lock(t, <<action, t>>)
    /\ UNCHANGED <<mgr_vars, now, sel_vars, chan_vars, health_vars, fn_vars, lock, task,
                   proc_vars, install_vars, tracker>>

AuditPushLen ==
    /\ \E t \in Task : audit_push_len(t)
    /\ UNCHANGED <<mgr_vars, now, sel_vars, chan_vars, health_vars, fn_vars, lock, task,
                   proc_vars, install_vars, tracker>>

AuditPushWrite ==
    /\ \E t \in Task : audit_push_write(t)
    /\ UNCHANGED <<mgr_vars, now, sel_vars, chan_vars, health_vars, fn_vars, lock, task,
                   proc_vars, install_vars, tracker>>

AuditList ==
    /\ \E t \in Task : audit_list(t)
    /\ UNCHANGED <<mgr_vars, now, sel_vars, chan_vars, health_vars, fn_vars, lock, task,
                   proc_vars, install_vars, tracker>>

NextAudit ==
    \/ AuditLock
    \/ AuditPushLen
    \/ AuditPushWrite
    \/ AuditList

\* the tasks of the server as appenders and readers of the audit log
SpecAudit == Init /\ [][NextAudit]_vars

\* the variables that no step of a process or of the ProcessManager writes
server_vars ==
    <<mgr_vars, now, sel_vars, chan_vars, health_vars, fn_vars, task_vars, log_vars,
      install_vars, tracker>>

\* the exit codes a runtime process ends with by itself: success, failure
ExitCodes == {0, 1}

\* start_direct, with or without --restart=on-failure, of an executable that
\* ends on TERM or ignores it
ProcStart ==
    /\ \E policy \in RestartPolicy, ignores_term \in BOOLEAN :
          start_direct(policy, ignores_term)
    /\ UNCHANGED server_vars

SupLaunch == sup_launch /\ UNCHANGED server_vars

SupRecord == sup_record /\ UNCHANGED server_vars

SupReap == sup_reap /\ UNCHANGED server_vars

SupCrashLine == sup_crash_line /\ UNCHANGED server_vars

SupRestartLine == sup_restart_line /\ UNCHANGED server_vars

SupSleepDone == sup_sleep_done /\ UNCHANGED server_vars

SupBackoff == sup_backoff /\ UNCHANGED server_vars

SupTrap == sup_trap /\ UNCHANGED server_vars

SupCleanup == sup_cleanup /\ UNCHANGED server_vars

SupCleanupKill == sup_cleanup_kill /\ UNCHANGED server_vars

\* the runtime process ends; the crashes explored are bounded
ChildExit ==
    /\ \E code \in ExitCodes :
          /\ code # 0 => sup.crashes < StopCrashes
          /\ child_exit(code)
    /\ UNCHANGED server_vars

StopRead == stop_read /\ UNCHANGED server_vars

StopTerm == stop_term /\ UNCHANGED server_vars

StopPoll == stop_poll /\ UNCHANGED server_vars

StopWake == stop_wake /\ UNCHANGED server_vars

StopKill == stop_kill /\ UNCHANGED server_vars

TimePasses == tick /\ UNCHANGED server_vars

NextStop ==
    \/ ProcStart
    \/ SupLaunch
    \/ SupRecord
    \/ SupReap
    \/ SupCrashLine
    \/ SupRestartLine
    \/ SupSleepDone
    \/ SupBackoff
    \/ SupTrap
    \/ SupCleanup
    \/ SupCleanupKill
    \/ ChildExit
    \/ StopRead
    \/ StopTerm
    \/ StopPoll
    \/ StopWake
    \/ StopKill
    \/ TimePasses

\* one runtime started once, directly or under the supervisor, and stop calls
\* made at any moment of its life
SpecStop == Init /\ [][NextStop]_vars

\* start_direct with --restart=on-failure
SupStart ==
    /\ \E ignores_term \in BOOLEAN : start_direct("on-failure", ignores_term)
    /\ UNCHANGED server_vars

\* the runtime process under the supervisor ends
SupChildExit ==
    /\ \E code \in ExitCodes :
          /\ code # 0 => sup.crashes < SupCrashes
          /\ child_exit(code)
    /\ UNCHANGED server_vars

\* SIGINT or SIGTERM reaches the supervisor at any moment
SupReceive ==
    /\ \E sig \in {"INT", "TERM"} : sup_receive(sig)
    /\ UNCHANGED server_vars

NextSupervisor ==
    \/ SupStart
    \/ SupLaunch
    \/ SupRecord
    \/ SupReap
    \/ SupCrashLine
    \/ SupRestartLine
    \/ SupSleepDone
    \/ SupBackoff
    \/ SupTrap
    \/ SupCleanup
    \/ SupCleanupKill
    \/ SupChildExit
    \/ SupReceive
    \/ TimePasses

\* the supervisor script alone, with its child and the signals it receives
SpecSupervisor == Init /\ [][NextSupervisor]_vars

\* start_direct without a restart policy, up to command.spawn()
StartSpawn ==
    /\ \E ignores_term \in BOOLEAN : start_spawn("none", ignores_term)
    /\ UNCHANGED server_vars

WriteCreate == write_create /\ UNCHANGED server_vars

WriteAll == write_all /\ UNCHANGED server_vars

ListStatuses == list_statuses /\ UNCHANGED server_vars

\* the runtime process ends
PidChildExit ==
    /\ \E code \in ExitCodes : child_exit(code)
    /\ UNCHANGED server_vars

NextPidFile ==
    \/ StartSpawn
    \/ WriteCreate
    \/ WriteAll
    \/ ListStatuses
    \/ PidChildExit
    \/ StopRead
    \/ StopTerm
    \/ StopPoll
    \/ StopWake
    \/ StopKill
    \/ TimePasses

\* start_direct step by step, with stop and list_statuses calls of other
\* processes on the same state directory
SpecPidFile == Init /\ [][NextPidFile]_vars

\* the variables that no installer step writes
not_install_vars ==
    <<mgr_vars, now, sel_vars, chan_vars, health_vars, fn_vars, task_vars, log_vars,
      proc_vars, tracker>>

InstallCreate == (\E p \in Installers : acquire_create(p)) /\ UNCHANGED not_install_vars

InstallWrite == (\E p \in Installers : acquire_write(p)) /\ UNCHANGED not_install_vars

InstallCheck == (\E p \in Installers : acquire_check(p)) /\ UNCHANGED not_install_vars

InstallRemove == (\E p \in Installers : acquire_remove(p)) /\ UNCHANGED not_install_vars

InstallRetry == (\E p \in Installers : acquire_retry(p)) /\ UNCHANGED not_install_vars

InstallDrop == (\E p \in Installers : lock_drop(p)) /\ UNCHANGED not_install_vars

InstallDies == (\E p \in Installers : installer_dies(p)) /\ UNCHANGED not_install_vars

NextInstall ==
    \/ InstallCreate
    \/ InstallWrite
    \/ InstallCheck
    \/ InstallRemove
    \/ InstallRetry
    \/ InstallDrop
    \/ InstallDies

\* installer processes that take and release the install lock, and may be
\* killed while they hold it
SpecInstall == Init /\ [][NextInstall]_vars

\* the variables that no start_direct or stop call of SpecTracker writes
not_tracker_vars ==
    <<mgr_vars, now, sel_vars, chan_vars, health_vars, fn_vars, task_vars, log_vars,
      proc_vars, install_vars>>

TrackStart ==
    /\ tracker.next_pid <= TrackerSpawns
    /\ \E spawn_ok \in BOOLEAN, outcome \in WriteOutcome : tracked_start(spawn_ok, outcome)
    /\ UNCHANGED not_tracker_vars

TrackStop == tracked_stop /\ UNCHANGED not_tracker_vars

TrackExit == (\E pid \in 1..TrackerSpawns : tracked_exit(pid)) /\ UNCHANGED not_tracker_vars

NextTracker ==
    \/ TrackStart
    \/ TrackStop
    \/ TrackExit

\* one runtime under every sequence of start_direct and stop calls, with
\* processes that may exit on their own
SpecTracker == Init /\ [][NextTracker]_vars

\* the tasks that serve HTTP requests
HttpTask == Task \ {"monitor"}

\* a request arrives and its handler takes the write lock, or the interval of
\* the monitor task fires and the monitor takes it
TaskAcquire ==
    /\ Len(audit) < TaskAudit
    /\ \/ \E t \in HttpTask, op \in {"start", "stop", "restart"}, id \in 1..TaskAgents :
              acquire(t, op, id, None)
       \/ \E t \in HttpTask, target \in {None} \cup (1..TaskAgents) :
              /\ target = None => round_robin_index < TaskSelects
              /\ acquire(t, "send", None, target)
       \/ \E t \in HttpTask :
              /\ Len(agents) < TaskAgents
              /\ acquire(t, "register", None, None)
       \/ \E t \in HttpTask : acquire(t, "health", None, None)
       \/ acquire("monitor", "tick", None, None)
    /\ UNCHANGED <<sel_vars, fn_vars, log_vars, proc_vars, install_vars, tracker>>

TaskRegister ==
    /\ Len(agents) < TaskAgents
    /\ \E t \in HttpTask : register_locked(t, "PicoClaw", <<"chat">>)
    /\ UNCHANGED <<sel_vars, fn_vars, log_vars, proc_vars, install_vars, tracker>>

TaskList ==
    /\ \E t \in HttpTask : list_locked(t)
    /\ UNCHANGED <<sel_vars, fn_vars, log_vars, proc_vars, install_vars, tracker>>

TaskStartPrefix ==
    /\ \E t \in HttpTask : start_prefix(t)
    /\ UNCHANGED <<sel_vars, fn_vars, log_vars, proc_vars, install_vars, tracker>>

TaskStartReturn ==
    /\ \E t \in HttpTask, ok \in BOOLEAN : start_return(t, ok)
    /\ UNCHANGED <<sel_vars, fn_vars, log_vars, proc_vars, install_vars, tracker>>

TaskStopPrefix ==
    /\ \E t \in HttpTask : stop_prefix(t)
    /\ UNCHANGED <<sel_vars, fn_vars, log_vars, proc_vars, install_vars, tracker>>

TaskStopReturn ==
    /\ \E t \in HttpTask, ok \in BOOLEAN : stop_return(t, ok)
    /\ UNCHANGED <<sel_vars, fn_vars, log_vars, proc_vars, install_vars, tracker>>

TaskSendPrefix ==
    /\ \E t \in HttpTask : send_prefix(t, <<"chat">>)
    /\ UNCHANGED <<sel_vars, fn_vars, log_vars, proc_vars, install_vars, tracker>>

TaskSendReturn ==
    /\ \E t \in HttpTask, ok \in BOOLEAN : send_return(t, <<"chat">>, ok)
    /\ UNCHANGED <<sel_vars, fn_vars, log_vars, proc_vars, install_vars, tracker>>

TaskRefreshBegin ==
    /\ \E t \in Task : refresh_begin(t)
    /\ UNCHANGED <<sel_vars, fn_vars, log_vars, proc_vars, install_vars, tracker>>

TaskRefreshTurn ==
    /\ \E t \in Task, a \in DOMAIN agents : refresh_turn(t, a)
    /\ UNCHANGED <<sel_vars, fn_vars, log_vars, proc_vars, install_vars, tracker>>

TaskHealthReturn ==
    /\ \E t \in Task, result \in HealthOk \cup {"Err"} :
          /\ task[t].pc = "await_health"
          /\ result = "Err" =>
                 wide_less(agents[task[t].id].consecutive_health_failures,
                           u32(TaskFailures))
          /\ health_return(t, result)
    /\ UNCHANGED <<sel_vars, fn_vars, log_vars, proc_vars, install_vars, tracker>>

TaskRefreshEnd ==
    /\ \E t \in Task : refresh_end(t)
    /\ UNCHANGED <<sel_vars, fn_vars, log_vars, proc_vars, install_vars, tracker>>

TaskRecoverTurn ==
    /\ \E t \in Task, a \in DOMAIN agents : recover_turn(t, a)
    /\ UNCHANGED <<sel_vars, fn_vars, log_vars, proc_vars, install_vars, tracker>>

TaskRestartReturn ==
    /\ \E t \in Task, ok \in BOOLEAN : restart_return(t, ok)
    /\ UNCHANGED <<sel_vars, fn_vars, log_vars, proc_vars, install_vars, tracker>>

TaskRecoverEnd ==
    /\ \E t \in Task : recover_end(t)
    /\ UNCHANGED <<sel_vars, fn_vars, log_vars, proc_vars, install_vars, tracker>>

TaskTickAudit ==
    /\ \E t \in Task : tick_audit(t)
    /\ UNCHANGED <<sel_vars, fn_vars, log_vars, proc_vars, install_vars, tracker>>

TaskCancel ==
    /\ \E t \in Task : cancel(t)
    /\ UNCHANGED <<sel_vars, fn_vars, log_vars, proc_vars, install_vars, tracker>>

TaskClockTick ==
    /\ now < TaskClock * base_backoff_ms
    /\ Tick
    /\ UNCHANGED <<sel_vars, health_vars, fn_vars, log_vars, proc_vars, install_vars, tracker, task_vars>>

NextTasks ==
    \/ TaskAcquire
    \/ TaskRegister
    \/ TaskList
    \/ TaskStartPrefix
    \/ TaskStartReturn
    \/ TaskStopPrefix
    \/ TaskStopReturn
    \/ TaskSendPrefix
    \/ TaskSendReturn
    \/ TaskRefreshBegin
    \/ TaskRefreshTurn
    \/ TaskHealthReturn
    \/ TaskRefreshEnd
    \/ TaskRecoverTurn
    \/ TaskRestartReturn
    \/ TaskRecoverEnd
    \/ TaskTickAudit
    \/ TaskCancel
    \/ TaskClockTick

\* the handlers and the monitor as tasks that interleave at their await
\* points, under the write lock of the manager
SpecTasks == Init /\ [][NextTasks]_vars

(* ------------------------------- claims -------------------------------- *)
\* the lifecycle edges as tabulated
TabulatedEdges ==
    { <<"Registered", "Installed">>, <<"Installed", "Running">>,
      <<"Running", "Stopped">>, <<"Running", "Degraded">>,
      <<"Degraded", "Running">>, <<"Stopped", "Running">> }

\* C1, as stated: every change of an agent's state made by a manager operation
\* goes along one of the six tabulated edges (or is a self-loop).
C1_OnlyTabulatedEdges ==
    [][\A a \in DOMAIN agents :
          agents'[a].state # agents[a].state =>
              <<agents[a].state, agents'[a].state>> \in TabulatedEdges]_vars

\* C1, amended: every change of an agent's state goes along a tabulated edge,
\* or is Registered -> Running made by a successful start_agent of that agent.
C1_TabulatedEdgesOrFirstStart ==
    [][\A a \in DOMAIN agents :
          agents'[a].state # agents[a].state =>
              \/ <<agents[a].state, agents'[a].state>> \in TabulatedEdges
              \/ /\ agents[a].state = "Registered"
                 /\ agents'[a].state = "Running"
                 /\ last' = CallResult("start", a, None, <<>>, "Ok", None,
                                       {<<"start", a>>})]_vars

\* a recovery has just taken a Degraded agent back to Running over its handle
C1_Witness ==
    /\ last.op = "recover_degraded"
    /\ \E a \in DOMAIN agents :
          <<"restart", a>> \in last.calls /\ agents[a].state = "Running"

\* C2: a handle is stored only for an agent that is Running or Degraded.
C2_HandleOnlyRunningOrDegraded ==
    \A a \in DOMAIN handles :
        a \in DOMAIN agents /\ agents[a].state \in {"Running", "Degraded"}

\* adapter.stop has just failed on a Degraded agent, which keeps its handle
C2_Witness ==
    /\ last.op = "stop"
    /\ last.result = "AdapterFailure"
    /\ last.id \in DOMAIN handles
    /\ agents[last.id].state = "Degraded"

ActiveBindings == {k \in DOMAIN bindings : bindings[k].status = "Active"}

\* C3: no two Active bindings have the same channel_type and bot_token_hash.
C3_AtMostOneActivePerKey ==
    \A j, k \in ActiveBindings :
        (/\ bindings[j].channel_type = bindings[k].channel_type
         /\ bindings[j].bot_token_hash = bindings[k].bot_token_hash) => j = k

\* a bind has just succeeded on a token that another instance had bound and
\* released, next to a second Active binding
C3_Witness ==
    /\ chan_last.op = "bind"
    /\ chan_last.result = "Ok"
    /\ Cardinality(ActiveBindings) >= 2
    /\ \E k \in ActiveBindings :
          /\ bindings[k].bot_token_hash = hash_token(chan_last.bot_token)
          /\ bindings[k].instance_id = "inst-B"
          /\ bindings[k].bound_at_unix_ms > 0

\* the Active bindings of (channel_type, sha256(token)) held by other instances
HeldByOther(instance_id, channel_type, bot_token) ==
    {k \in ActiveBindings :
        /\ bindings[k].channel_type = channel_type
        /\ bindings[k].bot_token_hash = hash_token(bot_token)
        /\ bindings[k].instance_id # instance_id}

\* C4: a bind of a (type, token) that another instance holds Active fails with
\* a conflict and leaves the store as it was; detect_conflicts stays empty.
C4_ConflictLeavesStore ==
    [][(/\ chan_last'.op = "bind"
        /\ HeldByOther(chan_last'.instance_id, chan_last'.channel_type,
                       chan_last'.bot_token) # {})
       => /\ chan_last'.result = "BindingConflict"
          /\ bindings' = bindings
          /\ next_binding_id' = next_binding_id
          /\ detect_conflicts' = {}]_vars

\* a bind has just failed with a conflict
C4_Witness ==
    /\ chan_last.op = "bind"
    /\ chan_last.result = "BindingConflict"
    /\ HeldByOther(chan_last.instance_id, chan_last.channel_type,
                   chan_last.bot_token) # {}

\* the last call was an untargeted route_and_send whose selection returned an agent
Selected == last.op = "route" /\ last.target = None /\ last.id # None

HasCapability(a, cap) ==
    \E j \in DOMAIN agents[a].capabilities : agents[a].capabilities[j] = cap

\* C5: the agent select_agent returns is Running and has every required
\* capability, spelled exactly as required.
C5_SelectedRunningAndCapable ==
    Selected =>
        /\ agents[last.id].state = "Running"
        /\ \A i \in DOMAIN last.caps : HasCapability(last.id, last.caps[i])

\* an agent was selected for a capability that another Running agent lacks, and
\* a third agent is not Running
C5_Witness ==
    /\ Selected
    /\ last.caps = <<"embedded">>
    /\ \E b \in DOMAIN agents :
          agents[b].state = "Running" /\ ~HasCapability(b, "embedded")
    /\ \E c \in DOMAIN agents : agents[c].state # "Running"

\* the cost tiers as tabulated
CostTier(runtime) ==
    IF runtime \in {"NullClaw", "PicoClaw", "MicroClaw"} THEN 1
    ELSE IF runtime \in {"ZeroClaw", "NanoClaw", "MimiClaw"} THEN 2
    ELSE 3

\* (count1, tier1) <= (count2, tier2), the task count first
PairLeq(count1, tier1, count2, tier2) ==
    count1 < count2 \/ (count1 = count2 /\ tier1 <= tier2)

\* the Running agents that have every capability of caps
Candidates(caps) ==
    {a \in DOMAIN agents :
        /\ agents[a].state = "Running"
        /\ \A i \in DOMAIN caps : HasCapability(a, caps[i])}

\* C6: the agent an untargeted route_and_send selects has the least
\* (task_count, cost_tier) pair among the Running agents that have every
\* required capability, as they are when the call is made.
C6_SelectedIsMinimal ==
    [][(last'.op = "route" /\ last'.target = None /\ last'.id # None) =>
          \A b \in Candidates(last'.caps) :
              PairLeq(agents[last'.id].task_count, CostTier(agents[last'.id].runtime),
                      agents[b].task_count, CostTier(agents[b].runtime))]_vars

\* an agent of the dearer tier was selected because the cheaper Running agent
\* has more tasks (the send then failed, so the counts are those of the call)
C6_Witness ==
    /\ Selected
    /\ last.result = "AdapterFailure"
    /\ \E b \in Candidates(last.caps) :
          /\ CostTier(agents[b].runtime) < CostTier(agents[last.id].runtime)
          /\ agents[b].task_count > agents[last.id].task_count

\* the last n selections of the run
Window(n) == {sel_run[i] : i \in (Len(sel_run) - n + 1)..Len(sel_run)}

\* C7, as stated: while the eligible set and its task counts do not change, any
\* |eligible set| consecutive selections return every agent of the set once.
C7_CycleOverEligibleSet ==
    LET n == Cardinality(sel_ctx.elig)
    IN  Len(sel_run) >= n => Window(n) = sel_ctx.elig

\* the best group of the run: the eligible agents with the least
\* (task_count, cost_tier) pair
BestGroup ==
    {a \in sel_ctx.elig :
        \A b \in sel_ctx.elig :
            PairLeq(sel_ctx.counts[a], CostTier(agents[a].runtime),
                    sel_ctx.counts[b], CostTier(agents[b].runtime))}

\* C7, amended: while the eligible set and its task counts do not change (and
\* round_robin_index does not wrap), any |best group| consecutive selections
\* return every agent of the best group once, and no other agent.
C7_CycleOverBestGroup ==
    LET n == Cardinality(BestGroup)
    IN  /\ \A i \in DOMAIN sel_run : sel_run[i] \in BestGroup
        /\ Len(sel_run) >= n => Window(n) = BestGroup

\* three selections in a row for one eligible set of three agents whose best
\* group has two
C7_Witness ==
    /\ Len(sel_run) = 3
    /\ Cardinality(sel_ctx.elig) = 3
    /\ Cardinality(BestGroup) = 2

\* C8: task_count is the number of successful sends to the agent; it grows by
\* one with each of them and nothing else changes it.
C8_TaskCountIsDispatches ==
    /\ [](\A a \in DOMAIN agents : agents[a].task_count = dispatched[a])
    /\ [][\A a \in DOMAIN agents :
             agents'[a].task_count # agents[a].task_count =>
                 /\ agents'[a].task_count = agents[a].task_count + 1
                 /\ last'.op = "route"
                 /\ last'.result = "Ok"
                 /\ last'.id = a
                 /\ last'.calls = {<<"send", a>>}]_vars

\* a send has just failed on an agent that had a successful one before
C8_Witness ==
    /\ last.op = "route"
    /\ last.result = "AdapterFailure"
    /\ agents[last.id].task_count = 1
    /\ \E b \in DOMAIN agents : agents[b].task_count = 0 /\ b # last.id

\* a step that is a stop_agent call (the clock stands still during a call)
StopStep == last'.op = "stop" /\ now' = now

\* C9: after a successful stop_agent(id) no handle is stored for id, and a
\* second stop_agent(id) succeeds, calls no adapter and changes neither the
\* agents nor the handles.
C9_StopIdempotent ==
    [][/\ (last'.op = "stop" /\ last'.result = "Ok") => last'.id \notin DOMAIN handles'
       /\ (/\ last.op = "stop" /\ last.result = "Ok"
           /\ StopStep /\ last'.id = last.id)
          => /\ last'.result = "Ok"
             /\ last'.calls = {}
             /\ agents' = agents
             /\ handles' = handles]_vars

\* a stop that called no adapter has just succeeded on a Stopped agent, or on a
\* Degraded agent without a handle: the second stop of an agent
C9_Witness ==
    /\ last.op = "stop"
    /\ last.result = "Ok"
    /\ last.calls = {}
    /\ last.id \in DOMAIN agents
    /\ agents[last.id].state \in {"Stopped", "Degraded"}

\* a stop_agent step on an existing agent from whose state the table has no
\* edge to Stopped
StopWithoutEdge ==
    /\ StopStep
    /\ last'.id \in DOMAIN agents
    /\ agents[last'.id].state # "Stopped"
    /\ <<agents[last'.id].state, "Stopped">> \notin TabulatedEdges

\* C10, as stated: an operation that would need an edge that is not in the
\* table leaves the record unchanged and returns InvalidTransition.
C10_IllegalEdgeRejected ==
    [][StopWithoutEdge =>
          /\ agents'[last'.id] = agents[last'.id]
          /\ last'.result = "InvalidTransition"]_vars

\* C10, amended: stop_agent on an agent whose state has no edge to Stopped
\* leaves the record unchanged and returns Ok (or the error of a failed
\* adapter.stop); no operation ever returns InvalidTransition.
C10_IllegalStopIgnored ==
    [][/\ StopWithoutEdge =>
             /\ agents'[last'.id] = agents[last'.id]
             /\ last'.result \in {"Ok", "AdapterFailure"}
       /\ last'.result # "InvalidTransition"]_vars

\* a stop has just succeeded on a Degraded agent, which is still Degraded
C10_Witness ==
    /\ last.op = "stop"
    /\ last.result = "Ok"
    /\ last.calls # {}
    /\ agents[last.id].state = "Degraded"

\* C11, as stated: the failure counter of an agent that has been polled is 0
\* exactly when the latest adapter.health call for it succeeded.
C11_ZeroIffLastPollOk ==
    \A a \in DOMAIN agents :
        health_hist[a].poll # "None" =>
            (agents[a].consecutive_health_failures = u32(0)
                <=> health_hist[a].poll = "Ok")

\* C11, amended: the failure counter of an agent is 0 exactly when no
\* adapter.health call has been made for it, or the latest one succeeded, or a
\* recovery attempt has succeeded since the latest one.
C11_ZeroIffNoFailureSinceReset ==
    \A a \in DOMAIN agents :
        agents[a].consecutive_health_failures = u32(0)
            <=> (health_hist[a].poll \in {"None", "Ok"} \/ health_hist[a].recovered)

\* a recovery has just cleared the counter of an agent whose latest poll
\* failed, next to an agent whose counter is not 0
C11_Witness ==
    /\ last.op = "recover_degraded"
    /\ \E a, b \in DOMAIN agents :
          /\ health_hist[a].poll = "Err"
          /\ health_hist[a].recovered
          /\ agents[a].consecutive_health_failures = u32(0)
          /\ agents[b].consecutive_health_failures # u32(0)

\* a step that is a refresh_health call which polls the adapter of agent a
RefreshStep(a) ==
    /\ last'.op = "refresh_health"
    /\ now' = now
    /\ <<"health", a>> \in last'.calls

\* C12: a failed health poll of refresh_health raises the agent's failure
\* counter by exactly 1, or leaves it at u32::MAX (never back at 0), and a
\* successful poll sets it to 0.
C12_CounterSaturates ==
    [][\A a \in DOMAIN agents :
          RefreshStep(a) =>
              LET before == agents[a].consecutive_health_failures
                  after == agents'[a].consecutive_health_failures
              IN  /\ health_hist'[a].poll = "Err" =>
                         /\ after # u32(0)
                         /\ IF before = u32_MAX THEN after = u32_MAX
                            ELSE wide_dec(after) = before
                  /\ health_hist'[a].poll = "Ok" => after = u32(0)]_vars

\* a health poll has just failed on a counter that is at u32::MAX
C12_Witness ==
    /\ last.op = "refresh_health"
    /\ \E a \in DOMAIN agents :
          /\ <<"health", a>> \in last.calls
          /\ health_hist[a].poll = "Err"
          /\ agents[a].consecutive_health_failures = u32_MAX

\* C13, as stated: backoff_ms(base, k) = backoff_ms(base, k + 1) for every
\* base and every failure count k >= 6.
C13_FlatFromSix ==
    (/\ ~wide_less(backoff_call.failures, u32(6))
     /\ backoff_call.failures # u32_MAX)
    => backoff_call.result =
           backoff_ms(backoff_call.base_ms, saturating_add(backoff_call.failures, 1))

\* C13, amended: backoff_ms(base, k) = backoff_ms(base, k + 1) for every base
\* and every failure count k >= 7.
C13_FlatFromSeven ==
    (/\ ~wide_less(backoff_call.failures, u32(7))
     /\ backoff_call.failures # u32_MAX)
    => backoff_call.result =
           backoff_ms(backoff_call.base_ms, saturating_add(backoff_call.failures, 1))

\* backoff_ms has been applied to the default base and 7 failures, below the cap
C13_Witness ==
    /\ backoff_call.base_ms = u64(1000)
    /\ backoff_call.failures = u32(7)
    /\ backoff_call.result = u64(64000)

\* min(base_ms * 2^min(failures - 1, 6), 300000) for failures >= 1, computed
\* without the product where it is above the cap
BackoffFormula(base_ms, failures) ==
    LET e == IF wide_less(failures, u32(7)) THEN to_int(failures) - 1 ELSE 6
        least_capped == (300000 + 2^e - 1) \div 2^e
    IN  IF wide_less(base_ms, u64(least_capped)) THEN u64(to_int(base_ms) * 2^e)
        ELSE u64(300000)

\* C14: for failures >= 1 backoff_ms returns
\* min(base_ms * 2^min(failures - 1, 6), 300000); the result is never above
\* 300000 and never decreases when failures grows by one.
C14_BackoffFormula ==
    /\ backoff_call.failures # u32(0) =>
           backoff_call.result = BackoffFormula(backoff_call.base_ms, backoff_call.failures)
    /\ ~wide_less(u64(300000), backoff_call.result)
    /\ ~wide_less(backoff_ms(backoff_call.base_ms,
                             saturating_add(backoff_call.failures, 1)),
                  backoff_call.result)

\* backoff_ms has been applied to a base whose product with 2^6 leaves the u64
C14_Witness ==
    /\ backoff_call.base_ms = <<1024, 0, 0, 0>>
    /\ backoff_call.failures = u32(7)
    /\ backoff_call.result = u64(300000)

\* a step that is a turn of the health monitor loop
TickStep == audit' = Append(audit, <<"health.tick", "fleet">>)

\* C15, as stated (scenario S4, for an agent whose adapter fails its first
\* two health calls and succeeds afterwards, restart succeeding, base 1000):
\* the tick that makes the first health call leaves the agent Degraded with
\* one failure and a recovery due 1000 ms later; the next tick, run when that
\* time has come, runs a recovery attempt and leaves the agent Running with no
\* failure; every later tick leaves it Running.
C15_ScenarioS4 ==
    [][\A a \in DOMAIN agents :
          (TickStep /\ a \in polled /\ health_script[a] # None) =>
              /\ (/\ health_script[a] = 2
                  /\ agents[a].state = "Running"
                  /\ now' = now)
                 => /\ agents'[a].state = "Degraded"
                    /\ agents'[a].consecutive_health_failures = u32(1)
                    /\ agents'[a].next_recovery_attempt_unix_ms = now + 1000
              /\ (/\ health_script[a] = 1
                  /\ agents[a].state = "Degraded"
                  /\ agents[a].consecutive_health_failures = u32(1)
                  /\ now >= agents[a].next_recovery_attempt_unix_ms)
                 => /\ <<"restart", a>> \in last'.calls
                    /\ agents'[a].state = "Running"
                    /\ agents'[a].consecutive_health_failures = u32(0)
              /\ (health_script[a] = 0 /\ agents[a].state = "Running")
                 => agents'[a].state = "Running"]_vars

\* C16, as stated: a tick of the monitor that finds an agent Degraded, its
\* scheduled recovery time reached and its health poll failing again, makes a
\* recovery attempt for it (adapter.restart over its handle).
C16_RecoveryAttemptWhenDue ==
    [][\A a \in DOMAIN agents :
          (/\ TickStep
           /\ a \in polled
           /\ agents[a].state = "Degraded"
           /\ agents[a].next_recovery_attempt_unix_ms # None
           /\ now >= agents[a].next_recovery_attempt_unix_ms
           /\ health_hist'[a].poll = "Err")
          => <<"restart", a>> \in last'.calls]_vars

\* C20: the ids of the registered agents are 1, 2, ..., k in the order of the
\* register_agent calls (agent-1 ... agent-k), whatever other operations run
\* in between: each call succeeds and assigns the id after the latest one
\* assigned, and no operation changes or removes an id.
C20_IdsInCallOrder ==
    /\ [](\A i \in DOMAIN agents : agents[i].id = i)
    /\ [][/\ (Len(agents') # Len(agents) \/ next_id' # next_id) =>
                /\ Len(agents') = Len(agents) + 1
                /\ agents'[Len(agents')].id = Len(agents) + 1
                /\ next_id' = next_id + 1
                /\ last'.op = "register"
                /\ last'.result = "Ok"
                /\ last'.id = Len(agents) + 1
           /\ \A i \in DOMAIN agents : i \in DOMAIN agents' /\ agents'[i].id = agents[i].id
           /\ last'.op = "register" => last'.result = "Ok"]_vars

\* a second agent has just been registered after the first one was started,
\* polled and found failing
C20_Witness ==
    /\ last.op = "register"
    /\ last.id = 2
    /\ agents[1].state = "Degraded"
    /\ agents[2].id = 2

\* the positions of a task inside an operation on the manager
InOperation == {"locked", "stopped", "refresh", "recover"} \cup AwaitPoints

\* the event of the monitor
TickEvent == <<"health.tick", "fleet">>

\* the number of health.tick events in the log
RECURSIVE TickEvents(_)
TickEvents(log) ==
    IF log = <<>> THEN 0
    ELSE (IF Head(log) = TickEvent THEN 1 ELSE 0) + TickEvents(Tail(log))

\* the fields of the manager
manager_fields == <<agents, handles, next_id, round_robin_index>>

\* C17: In each tick of the health monitor, refresh_health and recover_degraded
\* run under one hold of the write lock: from the moment the monitor has the
\* lock until it drops it, the monitor holds it in every state, no HTTP task is
\* in a handler, and every step that changes the manager or ends a call is the
\* monitor's. A tick ends by dropping the lock, and then appends exactly one
\* health.tick event: the event is appended by the monitor only, with the lock
\* no longer in its hands, and only once per dropped lock.
C17_TickUnderOneHold ==
    /\ [](task["monitor"].pc \in InOperation =>
              /\ lock = "monitor"
              /\ \A t \in HttpTask : task[t] = Idle)
    /\ [][task["monitor"].pc \in InOperation =>
              /\ \A t \in HttpTask : task'[t] = task[t]
              /\ (manager_fields' # manager_fields \/ last' # last) =>
                     task'["monitor"] # task["monitor"]]_vars
    /\ [][task["monitor"].pc # "audit" /\ task'["monitor"].pc = "audit" =>
              /\ task["monitor"].pc = "recover"
              /\ lock = "monitor" /\ lock' = Unlocked
              /\ audit' = audit]_vars
    /\ [][task["monitor"].pc = "audit" /\ task'["monitor"] # task["monitor"] =>
              /\ audit' = Append(audit, TickEvent)
              /\ task'["monitor"] = Idle]_vars
    /\ [][TickEvents(audit') # TickEvents(audit) =>
              /\ task["monitor"].pc = "audit"
              /\ lock # "monitor"
              /\ audit' = Append(audit, TickEvent)]_vars

\* a tick has polled an agent, restarted one and appended its event, while an
\* HTTP task waited for nothing: the last call that ended is the monitor's
\* recover_degraded, which made an adapter call
C17_Witness ==
    /\ audit # <<>> /\ audit[Len(audit)] = TickEvent
    /\ task["monitor"] = Idle
    /\ last.op = "recover_degraded" /\ last.calls # {}
    /\ \E a \in DOMAIN agents : health_hist[a].poll = "Ok" /\ agents[a].state = "Running"

\* a read of the records under the read lock has ended
ReadStep == last' # last /\ last'.op = "list"

\* C18: The operations that change the manager never overlap. A task is inside
\* one (register, start, stop, restart, refresh_health, recover_degraded,
\* route_and_send, its adapter awaits included) exactly when it holds the write
\* lock, so at most one task is; every step that changes a field of the
\* manager is a step of the holder and of no other task; and list_agents and
\* fleet_status read the records only in a state where no task is inside one.
C18_OperationsNeverOverlap ==
    /\ [](/\ \A t \in Task : task[t].pc \in InOperation <=> lock = t
          /\ \A t, u \in Task :
                task[t].pc \in InOperation /\ task[u].pc \in InOperation => t = u)
    /\ [][manager_fields' # manager_fields =>
              /\ lock \in Task
              /\ task[lock].pc \in InOperation
              /\ task'[lock] # task[lock]
              /\ \A t \in Task \ {lock} : task'[t] = task[t]]_vars
    /\ [][ReadStep =>
              /\ lock = Unlocked
              /\ \A t \in Task : task[t].pc \notin InOperation]_vars

\* an HTTP task has taken the lock right after the monitor dropped it, and
\* awaits the adapter.start of a restart whose stop has changed the agent,
\* while the monitor has yet to append its event
C18_Witness ==
    \E t \in HttpTask :
        /\ lock = t
        /\ task[t].op = "restart" /\ task[t].pc = "await_start"
        /\ agents[task[t].id].state = "Stopped"
        /\ task["monitor"].pc = "audit"

\* the future of task t is dropped at an await point
CancelStep(t) ==
    /\ task[t].pc \in AwaitPoints
    /\ task'[t].pc = "idle"
    /\ last'.result = "Cancelled"

\* the manager is consistent: a handle is stored only for a Running or
\* Degraded agent, a Running agent has its handle, and task_count counts the
\* sends that completed
Consistent ==
    /\ \A a \in DOMAIN handles : agents[a].state \in {"Running", "Degraded"}
    /\ \A a \in DOMAIN agents : agents[a].state = "Running" => a \in DOMAIN handles
    /\ \A a \in DOMAIN agents : agents[a].task_count = dispatched[a]

\* C19: Cancelling an operation at an adapter await (start, stop, health,
\* restart, send) drops the write lock and changes no record, no handle and
\* no task_count; and the manager is consistent in every state, the states a
\* cancelled operation leaves behind included: what an operation has written
\* before its await leaves no state without its handle, and the count of a
\* send is written after the await only.
C19_CancelLeavesConsistent ==
    /\ []Consistent
    /\ [][\A t \in Task : CancelStep(t) =>
              /\ lock = t /\ lock' = Unlocked
              /\ agents' = agents
              /\ handles' = handles
              /\ dispatched' = dispatched]_vars

\* a restart was cancelled at adapter.start, after its stop had removed the
\* handle and stopped the agent: the lock is free and the agent is Stopped,
\* without a handle
C19_Witness ==
    /\ last.result = "Cancelled" /\ last.op = "restart"
    /\ lock = Unlocked
    /\ \A t \in HttpTask : task[t] = Idle
    /\ agents[last.id].state = "Stopped"
    /\ last.id \notin DOMAIN handles
    /\ health_hist[last.id].poll = "Ok"

\* C21: can_transition_to(s, t) is true exactly when (s, t) is one of the six
\* tabulated edges or s = t, and false for every other pair of states.
C21_ExactlyTabulatedEdges ==
    transition_call # NoTransitionCall =>
        (transition_call.result <=>
            \/ <<transition_call.self, transition_call.next>> \in TabulatedEdges
            \/ transition_call.self = transition_call.next)

\* Registered -> Running has been asked for and rejected
C21_Witness ==
    /\ transition_call.self = "Registered"
    /\ transition_call.next = "Running"
    /\ ~transition_call.result

\* what the operations change: the manager and the channel store
changed_state == <<agents, handles, next_id, round_robin_index, bindings, next_binding_id>>

\* C22: Every operation that changes state appends at least one audit event:
\* a step of a handler or of the monitor that changes the manager or the
\* channel store makes the audit log longer.
C22_EveryChangeAudited ==
    [][changed_state' # changed_state => Len(audit') > Len(audit)]_vars

\* s is a prefix of t
IsPrefix(s, t) == Len(s) <= Len(t) /\ SubSeq(t, 1, Len(s)) = s

\* the events of log whose target is x
RECURSIVE WithTarget(_, _)
WithTarget(log, x) ==
    IF log = <<>> THEN <<>>
    ELSE (IF Head(log)[2] = x THEN <<Head(log)>> ELSE <<>>) \o WithTarget(Tail(log), x)

\* C23: The in-memory audit log is append-only under concurrent appenders:
\* every step leaves the events there are in place and in order, the result
\* of a list() is a prefix of the log ever after (so of every later list()),
\* and the events of one task are in the log in the order in which the task
\* emitted them, none but the one being pushed missing.
C23_AppendOnly ==
    /\ [][IsPrefix(audit, audit')]_vars
    /\ [][IsPrefix(listed, listed')]_vars
    /\ [](IsPrefix(listed, audit))
    /\ [](\A t \in Task :
             LET there == WithTarget(audit, t)
             IN  /\ IsPrefix(there, emitted[t])
                 /\ Len(emitted[t]) - Len(there) = IF appender[t].pc = "idle" THEN 0 ELSE 1)

\* two tasks have appended in turn, a list() was taken in between, and a
\* third task is pushing while the log has grown since that list()
C23_Witness ==
    /\ Len(audit) = 3
    /\ audit[1][2] = "http-1" /\ audit[2][2] = "http-2" /\ audit[3][2] = "http-1"
    /\ audit[1][1] # audit[3][1]
    /\ Len(listed) = 2
    /\ appender["monitor"].pc = "push"

\* the step is an unbind that found its binding
UnbindStep == chan_last'.op = "unbind" /\ chan_last'.result = "Ok" /\ bindings' # bindings

\* the step is a bind that stored a binding under key k
BindStep(k) ==
    /\ chan_last'.op = "bind" /\ chan_last'.result = "Ok"
    /\ bindings' # bindings
    /\ k = bind_key(from_str_loose(chan_last'.channel_type), chan_last'.instance_id,
                    hash_token(chan_last'.bot_token))

\* an unbind changes the status of one binding to Released and nothing else
UnbindOnlyReleases ==
    UnbindStep =>
        \E k \in DOMAIN bindings :
            /\ bindings' = [bindings EXCEPT ![k].status = "Released"]
            /\ bindings'[k].instance_id = chan_last'.instance_id

\* C24, as stated: unbind changes only the status of the addressed binding to
\* Released and removes nothing, and the Released record stays in
\* list_bindings, Released and with its instance_id, in every later state.
C24_ReleasedKeptForever ==
    /\ [][UnbindOnlyReleases]_vars
    /\ [][\A k \in DOMAIN bindings :
             bindings[k].status = "Released" =>
                 /\ k \in DOMAIN bindings'
                 /\ bindings'[k].status = "Released"
                 /\ bindings'[k].instance_id = bindings[k].instance_id]_vars

\* C24, amended: unbind changes only the status of the addressed binding to
\* Released and removes nothing; no call removes a record, and the Released
\* record stays in list_bindings, Released and with its instance_id, until a
\* bind of the same channel type and token succeeds, which puts its Active
\* binding in the place of the Released one.
C24_ReleasedKeptUntilRebound ==
    /\ [][UnbindOnlyReleases]_vars
    /\ [][\A k \in DOMAIN bindings :
             /\ k \in DOMAIN bindings'
             /\ bindings[k].status = "Released" =>
                    \/ /\ bindings'[k].status = "Released"
                       /\ bindings'[k].instance_id = bindings[k].instance_id
                    \/ /\ BindStep(k)
                       /\ bindings'[k].status = "Active"
                       /\ bindings'[k].instance_id = chan_last'.instance_id]_vars

\* a binding of inst-A was released; a bind of another token and an unbind of
\* that binding have followed, and the first record is still there
C24_Witness ==
    /\ chan_last.op = "unbind" /\ chan_last.result = "Ok"
    /\ chan_last.instance_id = "inst-B"
    /\ Cardinality(DOMAIN bindings) = 2
    /\ \A k \in DOMAIN bindings : bindings[k].status = "Released"
    /\ \E j, k \in DOMAIN bindings :
          /\ bindings[j].instance_id = "inst-A" /\ bindings[k].instance_id = "inst-B"
          /\ bindings[j].bound_at_unix_ms < bindings[k].bound_at_unix_ms

\* C25: stop sends TERM first and KILL only after StopPolls polls, 100 ms
\* apart, have each found the process alive; a stop that finds no PID file
\* returns Ok and sends no signal; and a stop that returns Ok leaves no PID
\* file behind.
C25_TermGraceKill ==
    /\ [](stopper.sent \in {<<>>, <<"TERM">>, <<"TERM", "KILL">>})
    /\ [](stopper.sent = <<"TERM", "KILL">> =>
             /\ stopper.polls = StopPolls
             /\ stopper.elapsed = StopPolls * PollTicks)
    /\ [](stopper.saw = "absent" => stopper.result = "Ok" /\ stopper.sent = <<>>)
    /\ [][stopper' # stopper /\ stopper'.result = "Ok" => pid_file' = "absent"]_vars

\* a stop that waited the whole grace period and sent KILL has returned Ok
C25_Witness ==
    /\ stopper.sent = <<"TERM", "KILL">>
    /\ stopper.result = "Ok"
    /\ stopper.elapsed = StopPolls * PollTicks
    /\ pid_file = "absent"

\* C26: once stop has returned Ok for a runtime started with
\* --restart=on-failure, the PID file is gone and neither the supervisor nor
\* the runtime process it launched is alive.
C26_StopLeavesNothingAlive ==
    (supervised /\ stopper.pc = "done" /\ stopper.saw = "complete"
        /\ stopper.result = "Ok")
    => /\ pid_file = "absent"
       /\ ~sup.alive
       /\ child.state # "running"

\* C27: the supervisor that has exited, after a SIGINT or SIGTERM received
\* at whatever point of its loop or after an exit 0 of its child, leaves no
\* runtime process that it launched alive.
C27_NoChildOutlivesSupervisor ==
    sup.pc = "exited" => child.state # "running"

\* min(2^(n-1), 30): the delay in seconds the statement gives for crash n
RECURSIVE Doubled(_)
Doubled(n) == IF n <= 1 THEN 1 ELSE 2 * Doubled(n - 1)
StatedDelay(n) == IF Doubled(n) < BackoffCap THEN Doubled(n) ELSE BackoffCap

\* the restart lines of the audit file, in order
RECURSIVE RestartLines(_)
RestartLines(lines) ==
    IF lines = <<>> THEN <<>>
    ELSE IF Head(lines)[1] = "runtime.restart"
         THEN <<Head(lines)>> \o RestartLines(Tail(lines))
         ELSE RestartLines(Tail(lines))

\* C28: the sleep that follows the n-th crash lasts min(2^(n-1), 30) seconds,
\* and the n-th runtime.restart line reports that delay: 1, 2, 4, 8, 16, 30,
\* 30, ...
C28_BackoffDoublesToCap ==
    /\ [][(sup.pc = "restart" /\ sup'.pc = "sleep") =>
              sup'.sleep = StatedDelay(sup.crashes) * TicksPerSecond]_vars
    /\ [](\A n \in 1..Len(RestartLines(audit_file)) :
              RestartLines(audit_file)[n][2] = StatedDelay(n))
    /\ [](sup.backoff \in InitialBackoff..BackoffCap)

\* the supervisor sleeps 30 s after the sixth crash, where doubling 16 gives
\* 32, and 30 s again after the seventh
C28_Witness ==
    /\ sup.pc = "sleep"
    /\ sup.crashes = SupCrashes
    /\ sup.sleep = BackoffCap * TicksPerSecond
    /\ RestartLines(audit_file)[SupCrashes - 1][2] = BackoffCap

\* no trapped signal has reached the supervisor
undisturbed ==
    /\ sup.alive
    /\ ~sup.pending
    /\ sup.pc \notin {"cleanup", "cleanup_sleep"}

\* the lines of the audit file come in pairs: runtime.crash, runtime.restart
PairedLines ==
    \A i \in 1..Len(audit_file) :
        audit_file[i][1] = IF i % 2 = 1 THEN "runtime.crash" ELSE "runtime.restart"

\* the lines still to be written for the latest crash
LinesDue == IF sup.pc = "crash" THEN 2 ELSE IF sup.pc = "restart" THEN 1 ELSE 0

\* the supervisor, at wait, takes the exit of its child
ReapStep ==
    /\ sup.pc = "wait" /\ ~sup.pending /\ child.state = "exited"
    /\ sup' # sup /\ sup'.pending = sup.pending

\* C29: a supervisor that no signal has reached turns every non-zero exit of
\* its child into one runtime.crash line followed by one runtime.restart
\* line, then the backoff sleep, then one more launch of the executable; on
\* an exit 0 it exits 0, and it neither writes a line nor launches then or
\* afterwards.
C29_CrashLinesAndRelaunch ==
    /\ [](PairedLines)
    /\ [](undisturbed => Len(audit_file) = 2 * sup.crashes - LinesDue)
    /\ [](undisturbed =>
              child.launches = IF sup.pc \in {"record", "wait"}
                               THEN sup.crashes + 1 ELSE sup.crashes)
    /\ [][ReapStep /\ child.exit_code # 0 =>
              sup'.pc = "crash" /\ sup'.crashes = sup.crashes + 1]_vars
    /\ [][(sup.alive /\ sup'.pc = "launch" /\ sup.pc # "launch") =>
              sup.pc = "backoff"]_vars
    /\ [][(sup.pc = "sleep" /\ sup'.pc = "backoff") => sup.sleep = 0]_vars
    /\ [][ReapStep /\ child.exit_code = 0 =>
              /\ sup'.pc = "exited" /\ sup'.status = 0
              /\ audit_file' = audit_file /\ child' = child]_vars
    /\ [][sup.pc = "exited" =>
              /\ sup'.pc = "exited"
              /\ audit_file' = audit_file /\ child'.launches = child.launches]_vars

\* after two crashes, each with its two lines and its relaunch, the third
\* run of the executable has exited 0 and the supervisor has exited 0
C29_Witness ==
    /\ sup.pc = "exited" /\ sup.status = 0 /\ sup.child_pid = ""
    /\ child.exit_code = 0
    /\ child.launches = 3
    /\ sup.crashes = 2
    /\ Len(audit_file) = 4

\* C30: a stop or a list_statuses that runs while start_direct writes the PID
\* file finds either no PID file or a complete ProcessInfo, never an empty or
\* a partly written file.
C30_PidFileAtomic ==
    /\ stopper.saw \in {"", "absent", "complete"}
    /\ lister.saw \in {"", "absent", "complete"}

\* the installer processes that hold the lock: alive, between a successful
\* acquire and the drop of the lock
Holders == {p \in Installers : installer[p].alive /\ installer[p].pc = "held"}

\* C31: at most one installer process holds the install lock; acquire
\* removes an existing lock file only when the pid recorded in it is that of
\* a process that no longer exists; and the drop of a lock removes no lock
\* file that another process created.
C31_InstallLockExclusive ==
    /\ [](Cardinality(Holders) <= 1)
    /\ [][\A p \in Installers :
              (installer[p].pc = "remove" /\ installer'[p].pc = "retry"
                  /\ lock_file.exists)
              => (lock_file.body \in Installers /\ ~installer[lock_file.body].alive)]_vars
    /\ [][\A p \in Installers :
              (installer[p].pc = "held" /\ installer'[p].pc = "idle"
                  /\ lock_file.exists)
              => lock_file.creator = p]_vars

\* C32: a start, stop, restart or send_task request that names an agent id
\* that is not registered is answered with 404 Not Found and changes no
\* agent record.
C32_UnknownAgentIs404 ==
    /\ [](last.result = "NotFound" => status_code(last.result) = "NOT_FOUND")
    /\ [][(last' # last /\ last'.result = "NotFound") => agents' = agents]_vars

\* a call of recover_degraded
RecoverStep ==
    /\ last'.op = "recover_degraded"
    /\ now' = now
    /\ last' # last \/ agents' # agents \/ handles' # handles

\* agent a is Degraded and its recovery time, if any, has come
DegradedAndDue(a) ==
    /\ agents[a].state = "Degraded"
    /\ \/ agents[a].next_recovery_attempt_unix_ms = None
       \/ agents[a].next_recovery_attempt_unix_ms <= now

\* the adapter calls of the latest operation that concern agent a
CallsOn(calls, a) == {c \in calls : c[2] = a}

\* C33: recover_degraded makes no adapter call for an agent that is not
\* Degraded and due, and leaves its record and its handle as they were; for
\* a due agent whose attempt did not succeed it leaves state,
\* consecutive_health_failures and next_recovery_attempt_unix_ms as they were.
C33_RecoverTouchesOnlyDue ==
    [][RecoverStep =>
         \A a \in DOMAIN agents :
            /\ ~DegradedAndDue(a) =>
                  /\ CallsOn(last'.calls, a) = {}
                  /\ agents'[a] = agents[a]
                  /\ (a \in DOMAIN handles') = (a \in DOMAIN handles)
                  /\ a \in DOMAIN handles => handles'[a] = handles[a]
            /\ (DegradedAndDue(a) /\ ~health_hist'[a].recovered) =>
                  /\ agents'[a].state = agents[a].state
                  /\ agents'[a].consecutive_health_failures =
                        agents[a].consecutive_health_failures
                  /\ agents'[a].next_recovery_attempt_unix_ms =
                        agents[a].next_recovery_attempt_unix_ms
                  /\ (a \in DOMAIN handles') = (a \in DOMAIN handles)]_vars

\* recover_degraded has just tried one Degraded agent in vain and has passed
\* over another Degraded agent whose recovery time has not come
C33_Witness ==
    /\ last.op = "recover_degraded"
    /\ \E a, b \in DOMAIN agents :
          /\ agents[a].state = "Degraded" /\ CallsOn(last.calls, a) # {}
          /\ ~health_hist[a].recovered
          /\ agents[b].state = "Degraded" /\ CallsOn(last.calls, b) = {}
          /\ agents[b].next_recovery_attempt_unix_ms > now

\* C34: a start_agent call that fails leaves every agent record, the handles
\* and round_robin_index as they were.
C34_FailedStartChangesNothing ==
    [][(last'.op = "start" /\ last'.result # "Ok") =>
          /\ agents' = agents
          /\ handles' = handles
          /\ round_robin_index' = round_robin_index]_vars

\* adapter.start has just failed for a registered agent with an adapter
C34_Witness ==
    /\ last.op = "start"
    /\ last.result = "AdapterFailure"
    /\ last.id \in DOMAIN agents
    /\ last.id \notin DOMAIN handles
    /\ agents[last.id].state # "Running"

\* a stop_agent of agent a has just returned Ok
JustStopped(a) == last.op = "stop" /\ last.result = "Ok" /\ last.id = a

\* C35: after a successful stop_agent(id) the agent has no handle and is not
\* Running, and every step taken from there that is not a start_agent of id
\* (the turns of the health monitor among them) leaves it so
C35_StoppedStaysStopped ==
    /\ [](\A a \in DOMAIN agents :
            JustStopped(a) => a \notin DOMAIN handles /\ agents[a].state # "Running")
    /\ [][\A a \in DOMAIN agents :
            (JustStopped(a) /\ ~(last'.op = "start" /\ last'.id = a)) =>
                a \notin DOMAIN handles' /\ agents'[a].state # "Running"]_vars

\* the step is a call of the manager whose adapter calls include op on agent a
\* and which returned Ok (the clock step makes no call and leaves last alone)
Called(op, a) == ~ClockTick /\ <<op, a>> \in last'.calls /\ last'.result = "Ok"

\* C36: a stored handle leaves the map only in a step whose adapter.stop on it
\* succeeded, and no step stores the handle of a successful adapter.start for
\* an agent that has a stored handle already
C36_HandleNeverOverwritten ==
    [][\A a \in DOMAIN handles :
          /\ a \notin DOMAIN handles' => Called("stop", a)
          /\ ~Called("start", a)]_vars

\* C37: every agent whose state is Running has a stored handle, and no
\* route_and_send fails for want of one
C37_RunningHasHandle ==
    /\ \A a \in DOMAIN agents : agents[a].state = "Running" => a \in DOMAIN handles
    /\ last.result # "NoRunningHandle"

\* recover_degraded has just started an agent that had no handle: it is
\* Running, with the handle of that start
C37_Witness ==
    /\ last.op = "recover_degraded"
    /\ \E a \in DOMAIN agents :
          /\ <<"start", a>> \in last.calls
          /\ agents[a].state = "Running"
          /\ a \in DOMAIN handles

\* C38: for every agent, next_recovery_attempt_unix_ms is None exactly when
\* consecutive_health_failures is 0
C38_RecoveryScheduledIffFailing ==
    \A a \in DOMAIN agents :
        agents[a].next_recovery_attempt_unix_ms = None
            <=> agents[a].consecutive_health_failures = u32(0)

\* a turn of the health monitor has just brought one agent back (counter 0,
\* nothing scheduled) while another has two failures counted and a recovery
\* scheduled
C38_Witness ==
    /\ last.op = "tick"
    /\ \E a, b \in DOMAIN agents :
          /\ <<"restart", a>> \in last.calls
          /\ agents[a].state = "Running"
          /\ agents[a].consecutive_health_failures = u32(0)
          /\ agents[a].next_recovery_attempt_unix_ms = None
          /\ agents[b].consecutive_health_failures = u32(2)
          /\ agents[b].next_recovery_attempt_unix_ms # None

\* C39: while the Running agents are a fixed set and every dispatch is an
\* untargeted route_and_send that all of them are eligible for and whose send
\* succeeds, the task_counts of any two of them differ by at most 1
C39_LoadBalance ==
    \A a, b \in running_ids : agents[a].task_count - agents[b].task_count <= 1

\* three Running agents of two runtimes (two cost tiers) have taken five tasks
\* between them: two, two and one
C39_Witness ==
    /\ last.op = "route"
    /\ Cardinality(running_ids) = 3
    /\ \E a, b \in running_ids : agents[a].runtime # agents[b].runtime
    /\ SumSeq(dispatched) = 5
    /\ \E a \in running_ids : agents[a].task_count = 1
    /\ \A a \in running_ids : agents[a].task_count = dispatched[a]

\* C40: every live process that start_direct spawned is the one the PID file
\* of its runtime names
C40_EverySpawnedTracked ==
    \A pid \in tracker.running : tracker.exists /\ tracker.named = pid
====
